---- MODULE Spec2Model ----
(***************************************************************************)
(* Contract lifecycle service: the contracts, versions, parties and        *)
(* activity logs tables of contract_service, and the handlers of           *)
(* services/contracts_service.py over repositories/contracts_repository.py *)
(***************************************************************************)
EXTENDS Integers, Sequences, FiniteSets, TLC

\* ------------------------------------------------------------------ bounds
\* Rows of the contracts table.
MaxContracts == 2
\* Audit rows written by status transitions, over all contracts.
MaxTransitions == 3
\* Audit rows written by anything else (create, duplicate, edits), over all contracts.
MaxWrites == 3
\* Audit rows over all contracts as long as no status transition was made.
MaxDraftWrites == 4
MaxListed == 26
\* Requests in flight at the same time.
MaxTxns == 2

\* Contracts the concurrent requests work on.
MaxConcContracts == 1
\* Audit rows written while requests run concurrently, those of the requests in flight included.
MaxConcLogs == 6
\* audit rows in a run of the fairly scheduled sessions
MaxFairLogs == 5

\* ------------------------------------------------------------------ inputs
Users == {"u1", "u2"}
Titles == {"t1", "t2"}
Contents == {"a", "b"}
Sources == {"AI", "USER"}
Emails == {"p@x"}
Null == "NULL"
Timestamp == "utcnow"
Reasons == {Null, "", "late"}
Names == {"n"}
\* An optional integer is the empty set (None) or a singleton.
Orders == {{}, {1}}
ContractIds == 1..MaxContracts
PartyIds == ContractIds \X (1..MaxWrites)

\* ------------------------------------------------------------------ schemas
ContractStatus == {"DRAFT", "GENERATED", "SIGNING", "SIGNED", "CANCELLED", "EXPIRED"}

PartyRole == {"HOST", "GUEST", "WITNESS"}

SignatureStatus == {"PENDING", "INVITED", "SIGNED"}

ActivityAction == {"CREATED", "UPDATED", "GENERATED", "SIGNED", "SENT", "CANCELLED"}

user_name(user) == user \o "@mail"

\* ------------------------------------------------------------------ service tables
\* A table in which a cancelled contract can be reopened.
ALLOWED_TRANSITIONS_reopen ==
    [s \in ContractStatus |->
        CASE s = "DRAFT" -> <<"GENERATED", "CANCELLED", "EXPIRED">>
          [] s = "GENERATED" -> <<"SIGNING", "CANCELLED", "EXPIRED">>
          [] s = "SIGNING" -> <<"SIGNED", "CANCELLED", "EXPIRED">>
          [] s = "CANCELLED" -> <<"GENERATED">>
          [] OTHER -> <<>>]

\* A table in which a contract sent to signing can only be signed.
ALLOWED_TRANSITIONS_signing_only_signed ==
    [s \in ContractStatus |->
        CASE s = "DRAFT" -> <<"GENERATED", "CANCELLED", "EXPIRED">>
          [] s = "GENERATED" -> <<"SIGNING", "CANCELLED", "EXPIRED">>
          [] s = "SIGNING" -> <<"SIGNED">>
          [] OTHER -> <<>>]

ALLOWED_TRANSITIONS ==
    [s \in ContractStatus |->
        CASE s = "DRAFT" -> <<"GENERATED", "CANCELLED", "EXPIRED">>
          [] s = "GENERATED" -> <<"SIGNING", "CANCELLED", "EXPIRED">>
          [] s = "SIGNING" -> <<"SIGNED", "CANCELLED", "EXPIRED">>
          [] OTHER -> <<>>]

\* A mapping that records a move to EXPIRED as a cancellation.
STATUS_ACTION_expired_cancelled ==
    [s \in ContractStatus |->
        CASE s = "GENERATED" -> "GENERATED"
          [] s = "SIGNING" -> "SENT"
          [] s = "SIGNED" -> "SIGNED"
          [] s = "CANCELLED" -> "CANCELLED"
          [] s = "EXPIRED" -> "CANCELLED"
          [] s = "DRAFT" -> "UPDATED"]

STATUS_ACTION ==
    [s \in ContractStatus |->
        CASE s = "GENERATED" -> "GENERATED"
          [] s = "SIGNING" -> "SENT"
          [] s = "SIGNED" -> "SIGNED"
          [] s = "CANCELLED" -> "CANCELLED"
          [] s = "EXPIRED" -> "UPDATED"
          [] s = "DRAFT" -> "UPDATED"]

Range(seq) == {seq[i] : i \in DOMAIN seq}

\* A test for None alone: the empty string passes.
Falsy_is_none(s) == s = Null

\* Python truthiness of an optional string: None and "" are falsy.
Falsy(s) == s = Null \/ s = ""

\* ------------------------------------------------------------------ state
VARIABLES
    contracts,   \* contracts.contracts: id -> row
    versions,    \* contracts.contract_versions: contract id -> rows in insertion order
    parties,     \* contracts.contract_parties: contract id -> set of rows
    party_seq,   \* contract id -> number of party ids generated for it
    logs,        \* contracts.activity_logs: contract id -> rows in insertion order
    txns         \* requests in flight: sessions with uncommitted work

vars == <<contracts, versions, parties, party_seq, logs, txns>>

db == <<contracts, versions, parties, party_seq, logs>>

\* The committed tables as one value.
Tables == [contracts |-> contracts, versions |-> versions, parties |-> parties,
           party_seq |-> party_seq, logs |-> logs]

OK == 200

\* What a handler leaves behind: its response and the tables after it.
Outcome(code, msg, ret, T) == [code |-> code, msg |-> msg, ret |-> ret, tables |-> T]

\* A ServiceError raised before session.commit(): get_session closes the
\* session and nothing the request wrote is kept.
ServiceError(code, msg) == Outcome(code, msg, <<>>, Tables)

\* session.commit() followed by the handler's return value.
Commit(T, ret) == Outcome(OK, "", ret, T)

\* ------------------------------------------------------------------ repository
\* The lookup with include_deleted left on.
get_contract_include_deleted(T, cid) ==
    {c \in DOMAIN T.contracts : c = cid}

\* SELECT ... WHERE id = :contract_id AND deleted_at IS NULL: the rows found.
get_contract(T, cid) ==
    {c \in DOMAIN T.contracts : c = cid /\ T.contracts[c].deleted_at = Null}

\* scalar_one_or_none(): None (the empty set) or one of the rows.
scalar_one_or_none(rows) ==
    IF rows = {} THEN {{}} ELSE {{r} : r \in rows}

\* A contract row that keeps the title as metadata.
Contract_titled_metadata(title, contract_type, template_id, owner, metadata) ==
    [title |-> title, contract_type |-> contract_type, template_id |-> template_id,
     owner_user_id |-> owner, metadata |-> [title |-> title], status |-> "DRAFT",
     signed_at |-> Null, deleted_at |-> Null]

Contract(title, contract_type, template_id, owner, metadata) ==
    [title |-> title, contract_type |-> contract_type, template_id |-> template_id,
     owner_user_id |-> owner, metadata |-> metadata, status |-> "DRAFT",
     signed_at |-> Null, deleted_at |-> Null]

NewId(T) == Cardinality(DOMAIN T.contracts) + 1

Extend(f, id, v) == [c \in DOMAIN f \cup {id} |-> IF c = id THEN v ELSE f[c]]

repo_create_contract(T, title, contract_type, template_id, owner, metadata) ==
    LET id == NewId(T) IN
    [T EXCEPT !.contracts = Extend(@, id, Contract(title, contract_type, template_id, owner, metadata)),
              !.versions = Extend(@, id, <<>>),
              !.parties = Extend(@, id, {}),
              !.party_seq = Extend(@, id, 0),
              !.logs = Extend(@, id, <<>>)]

\* The UPDATE without its WHERE clause: every row gets the fields.
update_contract_fields_all_rows(T, cid, fields) ==
    IF DOMAIN fields = {} THEN T
    ELSE [T EXCEPT !.contracts =
            [c \in DOMAIN @ |-> [f \in DOMAIN @[c] |-> IF f \in DOMAIN fields THEN fields[f] ELSE @[c][f]]]]

update_contract_fields(T, cid, fields) ==
    IF DOMAIN fields = {} THEN T
    ELSE [T EXCEPT !.contracts[cid] =
            [f \in DOMAIN @ |-> IF f \in DOMAIN fields THEN fields[f] ELSE @[f]]]

\* A soft delete that also cancels the contract.
soft_delete_contract_cancels(T, cid) ==
    [T EXCEPT !.contracts[cid].deleted_at = Timestamp, !.contracts[cid].status = "CANCELLED"]

soft_delete_contract(T, cid) ==
    [T EXCEPT !.contracts[cid].deleted_at = Timestamp]

ContractVersion(version, content, source, created_by) ==
    [version |-> version, content |-> content, source |-> source, created_by |-> created_by]

\* add_version that replaces the contract's versions by the new one.
add_version_overwrites(T, cid, version, content, source, created_by) ==
    [T EXCEPT !.versions[cid] = <<ContractVersion(version, content, source, created_by)>>]

add_version(T, cid, version, content, source, created_by) ==
    [T EXCEPT !.versions[cid] = Append(@, ContractVersion(version, content, source, created_by))]

\* get_latest_version is ORDER BY version DESC LIMIT 1: the rows that can come
\* first (none: None). This one is ORDER BY version ASC LIMIT 1, the oldest.
get_latest_version_oldest(T, cid) ==
    LET V == T.versions[cid] IN
    {V[k] : k \in {i \in DOMAIN V : \A j \in DOMAIN V : V[i].version <= V[j].version}}

get_latest_version(T, cid) ==
    LET V == T.versions[cid] IN
    {V[k] : k \in {i \in DOMAIN V : \A j \in DOMAIN V : V[j].version <= V[i].version}}

\* key: the sort key of each row of seq, ascending.
IsSortedBy(seq, key) ==
    \A i, j \in DOMAIN seq : i < j => key[i] <= key[j]

Orderings(S) ==
    {seq \in [1..Cardinality(S) -> S] : \A i, j \in 1..Cardinality(S) : i # j => seq[i] # seq[j]}

Reorderings(rows) ==
    {[i \in DOMAIN rows |-> rows[perm[i]]] : perm \in Orderings(DOMAIN rows)}

version_desc(seq) == [i \in DOMAIN seq |-> 0 - seq[i].version]

repo_list_versions(T, cid) ==
    {seq \in Reorderings(T.versions[cid]) : IsSortedBy(seq, version_desc(seq))}

signing_order_of(seq) == [i \in DOMAIN seq |-> seq[i].signing_order]

\* ORDER BY signing_order leaves the order of equal keys to the database:
\* every ordering consistent with the key is a possible result.
repo_list_parties(T, cid) ==
    {seq \in Orderings(T.parties[cid]) : IsSortedBy(seq, signing_order_of(seq))}

\* A party row that starts as INVITED.
ContractParty_invited(id, role, name, email, signing_order) ==
    [id |-> id, role |-> role, name |-> name, email |-> email,
     signing_order |-> signing_order, signature_status |-> "INVITED", signed_at |-> Null]

ContractParty(id, role, name, email, signing_order) ==
    [id |-> id, role |-> role, name |-> name, email |-> email,
     signing_order |-> signing_order, signature_status |-> "PENDING", signed_at |-> Null]

repo_add_party(T, cid, role, name, email, signing_order) ==
    LET id == <<cid, T.party_seq[cid] + 1>> IN
    [T EXCEPT !.parties[cid] = @ \cup {ContractParty(id, role, name, email, signing_order)},
              !.party_seq[cid] = @ + 1]

\* repo_remove_party is DELETE ... WHERE contract_id = :contract_id AND id =
\* :party_id. This one drops the id from the WHERE clause.
repo_remove_party_all(T, cid, party_id) ==
    [T EXCEPT !.parties[cid] = {p \in @ : p.id # party_id /\ FALSE}]

repo_remove_party(T, cid, party_id) ==
    [T EXCEPT !.parties[cid] = {p \in @ : p.id # party_id}]

remove_party_rowcount(T, cid, party_id) ==
    Cardinality({p \in T.parties[cid] : p.id = party_id})

SetMax(S) == CHOOSE m \in S : \A x \in S : x <= m

coalesce_max(S) == IF S = {} THEN 0 ELSE SetMax(S)

\* The maximum itself, not the maximum plus one.
get_next_version_number_stale(T, cid) ==
    LET current_max == coalesce_max({T.versions[cid][i].version : i \in DOMAIN T.versions[cid]})
    IN current_max

get_next_version_number(T, cid) ==
    LET current_max == coalesce_max({T.versions[cid][i].version : i \in DOMAIN T.versions[cid]})
    IN current_max + 1

ActivityLog(action, user, details) ==
    [action |-> action, user_id |-> user, user_name |-> user_name(user), details |-> details]

log_activity(T, cid, action, user, details) ==
    [T EXCEPT !.logs[cid] = Append(@, ActivityLog(action, user, details))]

Reverse(seq) == [i \in DOMAIN seq |-> seq[Len(seq) + 1 - i]]

\* ORDER BY timestamp DESC: rows are kept in insertion order.
list_activity_logs(T, cid) == Reverse(T.logs[cid])

\* Counting the PENDING parties only: an INVITED party passes as signed.
all_parties_signed_pending(T, cid) ==
    LET unsigned_count == Cardinality({p \in T.parties[cid] : p.signature_status = "PENDING"})
    IN unsigned_count = 0

all_parties_signed(T, cid) ==
    LET unsigned_count == Cardinality({p \in T.parties[cid] : p.signature_status # "SIGNED"})
    IN unsigned_count = 0

\* The number of parties instead of their maximum signing_order.
max_signing_order_count(T, cid) ==
    Cardinality(T.parties[cid])

max_signing_order(T, cid) ==
    coalesce_max({p.signing_order : p \in T.parties[cid]})

\* ------------------------------------------------------------------ service
\* The two checks every owner-scoped handler starts with: 404 when the id
\* resolves to no live row, 403 when the caller is not the owner, 0 otherwise.
owner_check(T, user, cid) ==
    IF get_contract(T, cid) = {} THEN 404
    ELSE IF T.contracts[cid].owner_user_id # user THEN 403
    ELSE 0

AccessError(code) ==
    IF code = 404 THEN ServiceError(404, "Contrato no encontrado.")
    ELSE ServiceError(403, "No tienes acceso a este contrato.")

NoDetails == [x \in {} |-> x]

create_contract(user, title, contract_type, template_id) ==
    LET T1 == repo_create_contract(Tables, title, contract_type, template_id, user, NoDetails)
        id == NewId(Tables)
        T2 == log_activity(T1, id, "CREATED", user, NoDetails)
    IN Commit(T2, T2.contracts[id])

content_of(latest_version) ==
    IF latest_version = {} THEN "" ELSE (CHOOSE v \in latest_version : TRUE).content

get_contract_detail(user, cid, latest_version, party_list) ==
    LET access == owner_check(Tables, user, cid) IN
    IF access # 0 THEN AccessError(access)
    ELSE Outcome(OK, "", [contract |-> contracts[cid], content |-> content_of(latest_version),
                          parties |-> party_list, signatures |-> <<>>], Tables)

\* update_contract that logs whether or not a field was set.
update_contract_always_logs(user, cid, title) ==
    LET access == owner_check(Tables, user, cid) IN
    IF access # 0 THEN AccessError(access)
    ELSE
        LET update_fields == IF title # Null THEN [title |-> title] ELSE NoDetails
            details == update_fields
            T1 == update_contract_fields(Tables, cid, update_fields)
            T2 == log_activity(T1, cid, "UPDATED", user, [changedFields |-> details])
        IN Commit(T2, T2.contracts[cid])

update_contract(user, cid, title) ==
    LET access == owner_check(Tables, user, cid) IN
    IF access # 0 THEN AccessError(access)
    ELSE
        LET update_fields == IF title # Null THEN [title |-> title] ELSE NoDetails
            details == update_fields
            T1 == update_contract_fields(Tables, cid, update_fields)
            T2 == IF DOMAIN update_fields # {}
                  THEN log_activity(T1, cid, "UPDATED", user, [changedFields |-> details])
                  ELSE T1
        IN Commit(T2, T2.contracts[cid])

delete_contract(user, cid) ==
    LET access == owner_check(Tables, user, cid) IN
    IF access # 0 THEN AccessError(access)
    ELSE IF contracts[cid].status = "SIGNED"
        THEN ServiceError(409, "No se puede eliminar un contrato firmado.")
    ELSE
        LET T1 == soft_delete_contract(Tables, cid)
            T2 == log_activity(T1, cid, "UPDATED", user, [softDelete |-> TRUE])
        IN Commit(T2, <<>>)

RECURSIVE copy_parties(_, _, _)
copy_parties(T, new_id, party_list) ==
    IF party_list = <<>> THEN T
    ELSE LET party == Head(party_list) IN
         copy_parties(repo_add_party(T, new_id, party.role, party.name, party.email,
                                     party.signing_order),
                      new_id, Tail(party_list))

duplicate_contract(user, cid, latest_version, party_list) ==
    LET access == owner_check(Tables, user, cid) IN
    IF access # 0 THEN AccessError(access)
    ELSE
        LET contract == contracts[cid]
            new_id == NewId(Tables)
            T1 == repo_create_contract(Tables, contract.title, contract.contract_type,
                                       contract.template_id, user, contract.metadata)
            T2 == IF latest_version # {}
                  THEN add_version(T1, new_id, 1, content_of(latest_version), "USER", user)
                  ELSE T1
            T3 == copy_parties(T2, new_id, party_list)
            T4 == log_activity(T3, new_id, "CREATED", user, [duplicatedFrom |-> cid])
        IN Commit(T4, T4.contracts[new_id])

\* update_content that also returns the contract to DRAFT.
update_content_resets_status(user, cid, content, source) ==
    LET access == owner_check(Tables, user, cid) IN
    IF access # 0 THEN AccessError(access)
    ELSE
        LET next_version == get_next_version_number(Tables, cid)
            T1 == add_version(Tables, cid, next_version, content, source, user)
            T2 == update_contract_fields(T1, cid, [status |-> "DRAFT"])
            action == IF source = "AI" THEN "GENERATED" ELSE "UPDATED"
            T3 == log_activity(T2, cid, action, user, [version |-> next_version, source |-> source])
        IN Commit(T3, <<>>)

\* An update_content that refuses a contract in a terminal status.
update_content_status_guard(user, cid, content, source) ==
    LET access == owner_check(Tables, user, cid) IN
    IF access # 0 THEN AccessError(access)
    ELSE IF contracts[cid].status \in {"SIGNED", "CANCELLED", "EXPIRED"}
        THEN ServiceError(409, "El contrato no admite cambios de contenido.")
    ELSE
        LET next_version == get_next_version_number(Tables, cid)
            T1 == add_version(Tables, cid, next_version, content, source, user)
            action == IF source = "AI" THEN "GENERATED" ELSE "UPDATED"
            T2 == log_activity(T1, cid, action, user, [version |-> next_version, source |-> source])
        IN Commit(T2, <<>>)

update_content(user, cid, content, source) ==
    LET access == owner_check(Tables, user, cid) IN
    IF access # 0 THEN AccessError(access)
    ELSE
        LET next_version == get_next_version_number(Tables, cid)
            T1 == add_version(Tables, cid, next_version, content, source, user)
            action == IF source = "AI" THEN "GENERATED" ELSE "UPDATED"
            T2 == log_activity(T1, cid, action, user, [version |-> next_version, source |-> source])
        IN Commit(T2, <<>>)

list_versions(user, cid, version_list) ==
    LET access == owner_check(Tables, user, cid) IN
    IF access # 0 THEN AccessError(access)
    ELSE Outcome(OK, "", version_list, Tables)

\* update_status with the party checks ahead of the edge and reason checks.
update_status_parties_first(user, cid, new_status, reason) ==
    LET access == owner_check(Tables, user, cid) IN
    IF access # 0 THEN AccessError(access)
    ELSE LET current_status == contracts[cid].status IN
        IF new_status = current_status
            THEN ServiceError(400, "El contrato ya tiene ese estado.")
        ELSE IF new_status = "SIGNED" /\ repo_list_parties(Tables, cid) = {<<>>}
            THEN ServiceError(409, "No hay partes firmantes registradas.")
        ELSE IF new_status = "SIGNED" /\ ~all_parties_signed(Tables, cid)
            THEN ServiceError(409, "Todas las partes deben estar SIGNED.")
        ELSE IF new_status \notin Range(ALLOWED_TRANSITIONS[current_status])
            THEN ServiceError(400, "Transicion de estado no permitida.")
        ELSE IF new_status = "CANCELLED" /\ Falsy(reason)
            THEN ServiceError(400, "El estado CANCELLED requiere reason.")
        ELSE
            LET update_fields ==
                    [status |-> new_status,
                     signed_at |-> IF new_status = "SIGNED" THEN Timestamp ELSE Null]
                T1 == update_contract_fields(Tables, cid, update_fields)
                T2 == log_activity(T1, cid, STATUS_ACTION[new_status], user,
                                   [previousStatus |-> current_status, newStatus |-> new_status,
                                    reason |-> reason])
            IN Commit(T2, <<>>)

\* update_status without the allowed-edge check.
update_status_any_edge(user, cid, new_status, reason) ==
    LET access == owner_check(Tables, user, cid) IN
    IF access # 0 THEN AccessError(access)
    ELSE LET current_status == contracts[cid].status IN
        IF new_status = current_status
            THEN ServiceError(400, "El contrato ya tiene ese estado.")
        ELSE IF new_status = "CANCELLED" /\ Falsy(reason)
            THEN ServiceError(400, "El estado CANCELLED requiere reason.")
        ELSE
            LET update_fields ==
                    [status |-> new_status,
                     signed_at |-> IF new_status = "SIGNED" THEN Timestamp ELSE Null]
                T1 == update_contract_fields(Tables, cid, update_fields)
                T2 == log_activity(T1, cid, STATUS_ACTION[new_status], user,
                                   [previousStatus |-> current_status, newStatus |-> new_status,
                                    reason |-> reason])
            IN Commit(T2, <<>>)

\* The status change that writes the status alone and leaves signed_at as it is.
update_status_status_only(user, cid, new_status, reason) ==
    LET access == owner_check(Tables, user, cid) IN
    IF access # 0 THEN AccessError(access)
    ELSE LET current_status == contracts[cid].status IN
        IF new_status = current_status
            THEN ServiceError(400, "El contrato ya tiene ese estado.")
        ELSE IF new_status \notin Range(ALLOWED_TRANSITIONS[current_status])
            THEN ServiceError(400, "Transicion de estado no permitida.")
        ELSE IF new_status = "CANCELLED" /\ Falsy(reason)
            THEN ServiceError(400, "El estado CANCELLED requiere reason.")
        ELSE IF new_status = "SIGNED" /\ repo_list_parties(Tables, cid) = {<<>>}
            THEN ServiceError(409, "No hay partes firmantes registradas.")
        ELSE IF new_status = "SIGNED" /\ ~all_parties_signed(Tables, cid)
            THEN ServiceError(409, "Todas las partes deben estar SIGNED.")
        ELSE
            LET T1 == update_contract_fields(Tables, cid, [status |-> new_status])
                T2 == log_activity(T1, cid, STATUS_ACTION[new_status], user,
                                   [previousStatus |-> current_status, newStatus |-> new_status,
                                    reason |-> reason])
            IN Commit(T2, <<>>)

update_status(user, cid, new_status, reason) ==
    LET access == owner_check(Tables, user, cid) IN
    IF access # 0 THEN AccessError(access)
    ELSE LET current_status == contracts[cid].status IN
        IF new_status = current_status
            THEN ServiceError(400, "El contrato ya tiene ese estado.")
        ELSE IF new_status \notin Range(ALLOWED_TRANSITIONS[current_status])
            THEN ServiceError(400, "Transicion de estado no permitida.")
        ELSE IF new_status = "CANCELLED" /\ Falsy(reason)
            THEN ServiceError(400, "El estado CANCELLED requiere reason.")
        ELSE IF new_status = "SIGNED" /\ repo_list_parties(Tables, cid) = {<<>>}
            THEN ServiceError(409, "No hay partes firmantes registradas.")
        ELSE IF new_status = "SIGNED" /\ ~all_parties_signed(Tables, cid)
            THEN ServiceError(409, "Todas las partes deben estar SIGNED.")
        ELSE
            LET update_fields ==
                    [status |-> new_status,
                     signed_at |-> IF new_status = "SIGNED" THEN Timestamp ELSE Null]
                T1 == update_contract_fields(Tables, cid, update_fields)
                T2 == log_activity(T1, cid, STATUS_ACTION[new_status], user,
                                   [previousStatus |-> current_status, newStatus |-> new_status,
                                    reason |-> reason])
            IN Commit(T2, <<>>)

get_transitions(user, cid) ==
    LET access == owner_check(Tables, user, cid) IN
    IF access # 0 THEN AccessError(access)
    ELSE Outcome(OK, "", [currentStatus |-> contracts[cid].status,
                          allowedTransitions |-> ALLOWED_TRANSITIONS[contracts[cid].status]],
                 Tables)

list_activity(user, cid) ==
    LET access == owner_check(Tables, user, cid) IN
    IF access # 0 THEN AccessError(access)
    ELSE Outcome(OK, "", list_activity_logs(Tables, cid), Tables)

list_parties(user, cid, party_list) ==
    LET access == owner_check(Tables, user, cid) IN
    IF access # 0 THEN AccessError(access)
    ELSE Outcome(OK, "", party_list, Tables)

add_party(user, cid, role, name, email, order) ==
    LET access == owner_check(Tables, user, cid) IN
    IF access # 0 THEN AccessError(access)
    ELSE IF contracts[cid].status = "SIGNED"
        THEN ServiceError(409, "No se pueden agregar partes a un contrato firmado.")
    ELSE
        LET signing_order == IF order = {} THEN max_signing_order(Tables, cid) + 1
                             ELSE CHOOSE n \in order : TRUE
            T1 == repo_add_party(Tables, cid, role, name, email, signing_order)
            T2 == log_activity(T1, cid, "UPDATED", user, [partyAdded |-> email])
        IN Commit(T2, <<>>)

\* remove_party that logs and commits before it looks at the row count.
remove_party_log_first(user, cid, party_id) ==
    LET access == owner_check(Tables, user, cid) IN
    IF access # 0 THEN AccessError(access)
    ELSE IF contracts[cid].status = "SIGNED"
        THEN ServiceError(409, "No se puede remover una parte de un contrato firmado.")
    ELSE
        LET deleted == remove_party_rowcount(Tables, cid, party_id)
            T1 == repo_remove_party(Tables, cid, party_id)
            T2 == log_activity(T1, cid, "UPDATED", user, [partyRemoved |-> party_id])
        IN IF deleted = 0 THEN Outcome(404, "Parte no encontrada.", <<>>, T2)
           ELSE Commit(T2, <<>>)

remove_party(user, cid, party_id) ==
    LET access == owner_check(Tables, user, cid) IN
    IF access # 0 THEN AccessError(access)
    ELSE IF contracts[cid].status = "SIGNED"
        THEN ServiceError(409, "No se puede remover una parte de un contrato firmado.")
    ELSE
        LET deleted == remove_party_rowcount(Tables, cid, party_id)
            T1 == repo_remove_party(Tables, cid, party_id)
        IN IF deleted = 0 THEN ServiceError(404, "Parte no encontrada.")
           ELSE Commit(log_activity(T1, cid, "UPDATED", user, [partyRemoved |-> party_id]), <<>>)

\* list_contracts_by_ids without the owner in the WHERE clause.
list_contracts_by_ids_any_owner(T, owner_user_id, contract_ids) ==
    {c \in DOMAIN T.contracts :
        /\ T.contracts[c].deleted_at = Null
        /\ c \in Range(contract_ids)}

list_contracts_by_ids(T, owner_user_id, contract_ids) ==
    {c \in DOMAIN T.contracts :
        /\ T.contracts[c].owner_user_id = owner_user_id
        /\ T.contracts[c].deleted_at = Null
        /\ c \in Range(contract_ids)}

Filename(cid) == <<"contract_", cid, ".html">>

\* latest: for each resolved contract, the row get_latest_version returned.
bulk_download(user, contract_ids, latest) ==
    LET resolved == list_contracts_by_ids(Tables, user, contract_ids) IN
    IF Cardinality(resolved) # Cardinality(Range(contract_ids))
        THEN ServiceError(404, "Uno o mas contratos no fueron encontrados.")
    ELSE Outcome(OK, "", {<<Filename(c), content_of(latest[c])>> : c \in resolved}, Tables)

\* The selection without the search for an unsigned party.
first_unsigned_ignores_status(party_list) == party_list[1]

first_unsigned(party_list) ==
    LET unsigned == {i \in DOMAIN party_list : party_list[i].signature_status # "SIGNED"}
    IN IF unsigned = {} THEN party_list[1]
       ELSE party_list[CHOOSE i \in unsigned : \A j \in unsigned : i <= j]

\* A view bound to the token: token k of the model is the one issued to the
\* k-th party, and a token issued to no party of the contract is refused.
public_view_token_bound(cid, token, latest_version, party_list) ==
    IF get_contract(Tables, cid) = {} THEN ServiceError(404, "Contrato no encontrado.")
    ELSE IF party_list = <<>>
        THEN ServiceError(404, "No hay partes registradas para este contrato.")
    ELSE LET k == IF token = "tok1" THEN 1 ELSE 2 IN
        IF k \notin DOMAIN party_list THEN ServiceError(403, "Token no valido.")
        ELSE Outcome(OK, "", [id |-> cid, title |-> contracts[cid].title,
                              content |-> content_of(latest_version),
                              party |-> party_list[k]], Tables)

public_view(cid, token, latest_version, party_list) ==
    IF get_contract(Tables, cid) = {} THEN ServiceError(404, "Contrato no encontrado.")
    ELSE IF party_list = <<>>
        THEN ServiceError(404, "No hay partes registradas para este contrato.")
    ELSE Outcome(OK, "", [id |-> cid, title |-> contracts[cid].title,
                          content |-> content_of(latest_version),
                          party |-> first_unsigned(party_list)], Tables)

\* ------------------------------------------------------------------ listing and statistics
\* created_at and updated_at are set by the database when the row is inserted
\* and never written again: both order the contracts by creation, as the ids do.
created_at(cid) == cid

\* Lower case of the strings of the model.
Lower(s) == IF s = "T1" THEN "t1" ELSE s

Substrings(s) ==
    CASE s = "t1" -> {"", "t", "1", "t1"}
      [] s = "t2" -> {"", "t", "2", "t2"}
      [] s = "a" -> {"", "a"}
      [] s = "b" -> {"", "b"}
      [] OTHER -> {"", s}

\* text ILIKE '%search%'
ilike(text, search) == Lower(search) \in Substrings(Lower(text))

\* The rows of contract_versions that carry the contract's maximum version.
latest_content(T, cid) ==
    {i \in DOMAIN T.versions[cid] :
        \A j \in DOMAIN T.versions[cid] : T.versions[cid][j].version <= T.versions[cid][i].version}

\* Contract LEFT OUTER JOIN latest_content: one row per latest version row of
\* the contract, or one row without content (i = 0) when it has no version.
outerjoin_latest_content(T) ==
    UNION {IF latest_content(T, c) = {} THEN {[id |-> c, i |-> 0]}
           ELSE {[id |-> c, i |-> i] : i \in latest_content(T, c)} : c \in DOMAIN T.contracts}

list_contracts_where(T, owner_user_id, filters) ==
    {row \in outerjoin_latest_content(T) :
        /\ T.contracts[row.id].owner_user_id = owner_user_id
        /\ T.contracts[row.id].deleted_at = Null
        /\ Falsy(filters.status) \/ T.contracts[row.id].status = filters.status
        /\ Falsy(filters.template_id) \/ T.contracts[row.id].template_id = filters.template_id
        /\ \/ Falsy(filters.search)
           \/ ilike(T.contracts[row.id].title, filters.search)
           \/ row.i # 0 /\ ilike(T.versions[row.id][row.i].content, filters.search)}

TitleRank == [t \in {"t1", "t2"} |-> IF t = "t1" THEN 1 ELSE 2]

StatusRank ==
    [s \in ContractStatus |->
        CASE s = "CANCELLED" -> 1 [] s = "DRAFT" -> 2 [] s = "EXPIRED" -> 3
          [] s = "GENERATED" -> 4 [] s = "SIGNED" -> 5 [] s = "SIGNING" -> 6]

sort_column(T, rows, filters) ==
    [i \in DOMAIN rows |->
        LET key == CASE filters.sort_by = "title" -> TitleRank[T.contracts[rows[i].id].title]
                     [] filters.sort_by = "status" -> StatusRank[T.contracts[rows[i].id].status]
                     [] OTHER -> created_at(rows[i].id)
        IN IF Lower(filters.sort_order) = "asc" THEN key ELSE 0 - key]

Min(a, b) == IF a <= b THEN a ELSE b

\* OFFSET (page - 1) * page_size LIMIT page_size
offset_limit(rows, page, page_size) ==
    SubSeq(rows, (page - 1) * page_size + 1, Min(Len(rows), page * page_size))

\* Every (rows, total) the two queries of list_contracts can return: rows with
\* equal sort keys come in any order.
repo_list_contracts(T, owner_user_id, filters) ==
    LET query == list_contracts_where(T, owner_user_id, filters)
        total == Cardinality({row.id : row \in query})
    IN {[rows |-> [i \in DOMAIN offset_limit(seq, filters.page, filters.page_size) |->
                        offset_limit(seq, filters.page, filters.page_size)[i].id],
         total |-> total] :
            seq \in {s \in Orderings(query) : IsSortedBy(s, sort_column(T, s, filters))}}

\* The result of list_contracts when the sort column is created_at and no
\* contract has two rows of its maximum version: the order is then determined.
list_contracts_by_created_at(T, owner_user_id, filters) ==
    LET query == list_contracts_where(T, owner_user_id, filters)
        n == Cardinality(query)
        asc == [i \in 1..n |->
                    (CHOOSE row \in query :
                        Cardinality({r \in query : created_at(r.id) < created_at(row.id)}) = i - 1).id]
        seq == IF Lower(filters.sort_order) = "asc" THEN asc ELSE [i \in 1..n |-> asc[n + 1 - i]]
    IN [rows |-> offset_limit(seq, filters.page, filters.page_size),
        total |-> Cardinality({row.id : row \in query})]

RecentLimit == 10

\* The ids in S by creation, newest first.
NewestFirst(S) ==
    CHOOSE seq \in Orderings(S) : \A i, j \in DOMAIN seq : i < j => created_at(seq[i]) > created_at(seq[j])

list_recent_contracts_unfiltered(T, owner_user_id) ==
    LET S == {c \in DOMAIN T.contracts : T.contracts[c].owner_user_id = owner_user_id}
    IN SubSeq(NewestFirst(S), 1, Min(Cardinality(S), RecentLimit))

repo_list_recent_contracts(T, owner_user_id) ==
    LET S == {c \in DOMAIN T.contracts :
                /\ T.contracts[c].owner_user_id = owner_user_id
                /\ T.contracts[c].deleted_at = Null}
    IN SubSeq(NewestFirst(S), 1, Min(Cardinality(S), RecentLimit))

unsigned_party_exists(T, cid) == \E p \in T.parties[cid] : p.signature_status # "SIGNED"

pending_contracts(T, owner_user_id) ==
    {c \in DOMAIN T.contracts :
        /\ T.contracts[c].owner_user_id = owner_user_id
        /\ T.contracts[c].deleted_at = Null
        /\ T.contracts[c].status = "SIGNING"
        /\ unsigned_party_exists(T, c)}

repo_list_pending_contracts(T, owner_user_id) == NewestFirst(pending_contracts(T, owner_user_id))

\* The count without the EXISTS clause: every live SIGNING contract.
count_pending_signatures_all_signing(T, owner_user_id) ==
    Cardinality({c \in DOMAIN T.contracts :
        /\ T.contracts[c].owner_user_id = owner_user_id
        /\ T.contracts[c].deleted_at = Null
        /\ T.contracts[c].status = "SIGNING"})

count_pending_signatures(T, owner_user_id) == Cardinality(pending_contracts(T, owner_user_id))

\* GROUP BY status: a count for each status some live contract of the owner has.
contract_status_counts(T, owner_user_id) ==
    LET live == {c \in DOMAIN T.contracts :
                    /\ T.contracts[c].owner_user_id = owner_user_id
                    /\ T.contracts[c].deleted_at = Null}
    IN [s \in {T.contracts[c].status : c \in live} |->
            Cardinality({c \in live : T.contracts[c].status = s})]

\* this_month: the contracts whose signed_at is not before the start of the
\* current month, which the stored state does not determine.
count_signed_this_month(T, owner_user_id, this_month) ==
    Cardinality({c \in DOMAIN T.contracts :
        /\ T.contracts[c].owner_user_id = owner_user_id
        /\ T.contracts[c].deleted_at = Null
        /\ T.contracts[c].status = "SIGNED"
        /\ T.contracts[c].signed_at # Null /\ c \in this_month})

RECURSIVE sum(_)
sum(values) ==
    IF DOMAIN values = {} THEN 0
    ELSE LET k == CHOOSE x \in DOMAIN values : TRUE
         IN values[k] + sum([x \in DOMAIN values \ {k} |-> values[x]])

\* ceil(total / page_size) for a positive page_size.
\* The quotient rounded down.
ceil_div_floor(total, page_size) == total \div page_size

ceil_div(total, page_size) == (total + page_size - 1) \div page_size

\* result: what repo.list_contracts returned (one of its possible results).
list_contracts(user, filters, result) ==
    LET total == result.total
        total_pages == IF total # 0 THEN ceil_div(total, filters.page_size) ELSE 1
    IN Outcome(OK, "", [data |-> result.rows,
                        pagination |-> [page |-> filters.page, pageSize |-> filters.page_size,
                                        totalPages |-> total_pages, totalItems |-> total]],
               Tables)

list_recent_contracts(user) ==
    Outcome(OK, "", repo_list_recent_contracts(Tables, user), Tables)

list_pending_contracts(user) ==
    Outcome(OK, "", repo_list_pending_contracts(Tables, user), Tables)

stats(user, this_month) ==
    LET status_counts == contract_status_counts(Tables, user)
        total == sum(status_counts)
        pending_signatures == count_pending_signatures(Tables, user)
        signed_this_month == count_signed_this_month(Tables, user, this_month)
    IN Outcome(OK, "", [total |-> total, byStatus |-> status_counts,
                        pendingSignatures |-> pending_signatures,
                        signedThisMonth |-> signed_this_month], Tables)

\* ------------------------------------------------------------------ signature service
\* The party's signature_status column is written by the signing workflow,
\* outside this service: a party is invited, then signs.
set_signature_status(cid, party_id, status) ==
    [Tables EXCEPT !.parties[cid] =
        {IF p.id = party_id
            THEN [p EXCEPT !.signature_status = status,
                           !.signed_at = IF status = "SIGNED" THEN Timestamp ELSE Null]
            ELSE p : p \in @}]

\* ------------------------------------------------------------------ requests
\* The bounds of the model: tables no larger than the bounds allow.
AllLogs(T) == UNION {{<<c, i>> : i \in DOMAIN T.logs[c]} : c \in DOMAIN T.logs}

IsTransitionLog(log) == "newStatus" \in DOMAIN log.details

Transitions(T) == {x \in AllLogs(T) : IsTransitionLog(T.logs[x[1]][x[2]])}

WithinBounds(T) ==
    /\ Cardinality(DOMAIN T.contracts) <= MaxContracts
    /\ \E all \in {AllLogs(T)} : \E tr \in {{x \in all : IsTransitionLog(T.logs[x[1]][x[2]])}} :
        \/ /\ Cardinality(tr) <= MaxTransitions
           /\ Cardinality(all) - Cardinality(tr) <= MaxWrites
        \/ /\ Cardinality(tr) = 0
           /\ Cardinality(all) <= MaxDraftWrites

\* A request served from start to end with no other request in between.
Serve(outcome) ==
    \E o \in {outcome.tables} :
        /\ WithinBounds(o)
        /\ contracts' = o.contracts
        /\ versions' = o.versions
        /\ parties' = o.parties
        /\ party_seq' = o.party_seq
        /\ logs' = o.logs
        /\ UNCHANGED txns

\* The requests the specification issues. The properties quantify over the full
\* input sets; these are the ones that build the reachable tables.
CreateRequests == {"t1"}

TitleRequests == {"t2", Null}

ContentRequests == {<<"a", "AI">>, <<"b", "USER">>}

StatusRequests ==
    {<<s, Null>> : s \in ContractStatus} \cup {<<"CANCELLED", "late">>, <<"CANCELLED", "">>}

PartyRequests == {<<"HOST", {}>>, <<"GUEST", {1}>>}

CreateContract == \E u \in Users, t \in CreateRequests : Serve(create_contract(u, t, "lease", "tpl"))

GetContractDetail ==
    \E u \in Users, c \in DOMAIN contracts :
        \E lv \in scalar_one_or_none(get_latest_version(Tables, c)),
           pl \in repo_list_parties(Tables, c) : Serve(get_contract_detail(u, c, lv, pl))

UpdateContract ==
    \E u \in Users, c \in ContractIds, t \in TitleRequests : Serve(update_contract(u, c, t))

DeleteContract == \E u \in Users, c \in ContractIds : Serve(delete_contract(u, c))

DuplicateContract ==
    \E u \in Users, c \in DOMAIN contracts :
        \E lv \in scalar_one_or_none(get_latest_version(Tables, c)),
           pl \in repo_list_parties(Tables, c) : Serve(duplicate_contract(u, c, lv, pl))

UpdateContent ==
    \E u \in Users, c \in ContractIds, x \in ContentRequests :
        Serve(update_content(u, c, x[1], x[2]))

ListVersions ==
    \E u \in Users, c \in DOMAIN contracts :
        \E vl \in repo_list_versions(Tables, c) : Serve(list_versions(u, c, vl))

UpdateStatus ==
    \E u \in Users, c \in ContractIds, x \in StatusRequests :
        Serve(update_status(u, c, x[1], x[2]))

GetTransitions == \E u \in Users, c \in ContractIds : Serve(get_transitions(u, c))

ListActivity == \E u \in Users, c \in ContractIds : Serve(list_activity(u, c))

ListParties ==
    \E u \in Users, c \in DOMAIN contracts :
        \E pl \in repo_list_parties(Tables, c) : Serve(list_parties(u, c, pl))

AddParty ==
    \E u \in Users, c \in ContractIds, x \in PartyRequests, n \in Names, e \in Emails :
        Serve(add_party(u, c, x[1], n, e, x[2]))

\* The party ids issued so far, and one that was never issued.
PartyIdRequests ==
    UNION {{p.id : p \in parties[c]} : c \in DOMAIN contracts} \cup {<<1, MaxDraftWrites>>}

RemoveParty ==
    \E u \in Users, c \in ContractIds, p \in PartyIdRequests : Serve(remove_party(u, c, p))

\* What get_latest_version, list_parties and list_versions can return for an id.
LatestChoices(c) ==
    IF c \in DOMAIN contracts THEN scalar_one_or_none(get_latest_version(Tables, c)) ELSE {{}}

PartyListChoices(c) ==
    IF c \in DOMAIN contracts THEN repo_list_parties(Tables, c) ELSE {<<>>}

VersionListChoices(c) ==
    IF c \in DOMAIN contracts THEN repo_list_versions(Tables, c) ELSE {<<>>}

LatestChoiceFns ==
    {f \in [DOMAIN contracts -> UNION {LatestChoices(c) : c \in DOMAIN contracts}] :
        \A c \in DOMAIN contracts : f[c] \in LatestChoices(c)}

IdListRequests == {<<1>>, <<1, 2>>, <<2, 2>>}

Tokens == {"tok1", "tok2"}

BulkDownload ==
    \E u \in Users, ids \in IdListRequests, f \in LatestChoiceFns : Serve(bulk_download(u, ids, f))

PublicView ==
    \E c \in ContractIds, k \in Tokens :
        \E lv \in LatestChoices(c), pl \in PartyListChoices(c) : Serve(public_view(c, k, lv, pl))

\* query parameters of GET /contracts
ContractFilters ==
    [status : {Null, "DRAFT"}, search : {Null, "T1"}, template_id : {Null, "tpl"},
     sort_by : {"createdAt", "status"}, sort_order : {"asc", "desc"},
     page : {1, 2}, page_size : {1, 20}]

FilterRequests ==
    {[status |-> Null, search |-> Null, template_id |-> Null, sort_by |-> "createdAt",
      sort_order |-> "desc", page |-> 1, page_size |-> 20],
     [status |-> "DRAFT", search |-> "T1", template_id |-> "tpl", sort_by |-> "status",
      sort_order |-> "asc", page |-> 2, page_size |-> 1]}

ListContracts ==
    \E u \in Users, f \in FilterRequests :
        \E result \in repo_list_contracts(Tables, u, f) : Serve(list_contracts(u, f, result))

ListRecentContracts == \E u \in Users : Serve(list_recent_contracts(u))

ListPendingContracts == \E u \in Users : Serve(list_pending_contracts(u))

\* The contracts the current month's start does not come after the signing of.
ThisMonthChoices == SUBSET {c \in DOMAIN contracts : contracts[c].signed_at # Null}

GetStats == \E u \in Users, this_month \in ThisMonthChoices : Serve(stats(u, this_month))

SignatureService ==
    \E c \in DOMAIN contracts : \E p \in parties[c] :
        \/ /\ p.signature_status = "PENDING"
           /\ parties' = set_signature_status(c, p.id, "INVITED").parties
           /\ UNCHANGED <<contracts, versions, party_seq, logs, txns>>
        \/ /\ p.signature_status # "SIGNED"
           /\ parties' = set_signature_status(c, p.id, "SIGNED").parties
           /\ UNCHANGED <<contracts, versions, party_seq, logs, txns>>

\* ------------------------------------------------------------------ specification
Init ==
    /\ contracts = <<>>
    /\ versions = <<>>
    /\ parties = <<>>
    /\ party_seq = <<>>
    /\ logs = <<>>
    /\ txns = <<>>

Next ==
    \/ CreateContract
    \/ GetContractDetail
    \/ UpdateContract
    \/ DeleteContract
    \/ DuplicateContract
    \/ UpdateContent
    \/ ListVersions
    \/ UpdateStatus
    \/ GetTransitions
    \/ ListActivity
    \/ ListParties
    \/ AddParty
    \/ RemoveParty
    \/ BulkDownload
    \/ PublicView
    \/ ListContracts
    \/ ListRecentContracts
    \/ ListPendingContracts
    \/ GetStats
    \/ SignatureService

Spec == Init /\ [][Next]_vars

\* ------------------------------------------------------------------ long listings
\* The same handlers on a database of up to MaxListed contracts, for the
\* pagination of list_contracts. The first contract is of either user, the
\* others of its owner's; contracts are sent for signature oldest first, and
\* only the first is deleted.
ServeListed(outcome) ==
    \E o \in {outcome.tables} :
        /\ contracts' = o.contracts
        /\ versions' = o.versions
        /\ parties' = o.parties
        /\ party_seq' = o.party_seq
        /\ logs' = o.logs
        /\ UNCHANGED txns

CreateContractListed ==
    \E u \in Users :
        /\ Cardinality(DOMAIN contracts) < MaxListed
        /\ DOMAIN contracts # {} => u = "u1"
        /\ ServeListed(create_contract(u, "t1", "lease", "tpl"))

UpdateStatusListed ==
    \E c \in DOMAIN contracts, s \in {"GENERATED", "SIGNING"} :
        /\ c > 1 => contracts[c - 1].status = "SIGNING"
        /\ update_status(contracts[c].owner_user_id, c, s, Null).code = OK
        /\ ServeListed(update_status(contracts[c].owner_user_id, c, s, Null))

DeleteContractListed ==
    /\ 1 \in DOMAIN contracts
    /\ delete_contract(contracts[1].owner_user_id, 1).code = OK
    /\ ServeListed(delete_contract(contracts[1].owner_user_id, 1))

ListedFilters ==
    [status : {Null, "SIGNING"}, search : {Null}, template_id : {Null},
     sort_by : {"createdAt"}, sort_order : {"asc", "desc"},
     page : {1, 3}, page_size : {1, 7, 20, 25}]

ListContractsListed ==
    \E u \in Users :
        \E f \in {g \in ListedFilters : g.status = "SIGNING" /\ g.sort_order = "desc" /\ g.page_size = 20} :
            ServeListed(list_contracts(u, f, list_contracts_by_created_at(Tables, u, f)))

NextListed ==
    \/ CreateContractListed
    \/ UpdateStatusListed
    \/ DeleteContractListed
    \/ ListContractsListed

SpecListed == Init /\ [][NextListed]_vars

\* ------------------------------------------------------------------ concurrent requests
\* Each request runs in its own session (get_session), a transaction of the
\* database at its default isolation, READ COMMITTED: every statement reads the
\* rows committed when it runs, rows a session flushed are invisible to the
\* others until it commits, and an UPDATE of a row waits for the session that
\* holds an uncommitted UPDATE of the same row.
TxnIds == 1..MaxTxns

Idle == [op |-> "idle", user |-> Null, cid |-> 0, arg |-> <<>>, pc |-> "idle",
         next_version |-> 0, current_status |-> Null]

IdleTxns == {t \in TxnIds : txns[t].op = "idle"}

\* The session with an uncommitted UPDATE of the contract row holds its lock.
RowLocked(cid) ==
    \E t \in TxnIds :
        /\ txns[t].op \in {"update_status", "delete_contract"}
        /\ txns[t].cid = cid
        /\ txns[t].pc = "commit"

Store(T) ==
    /\ contracts' = T.contracts
    /\ versions' = T.versions
    /\ parties' = T.parties
    /\ party_seq' = T.party_seq
    /\ logs' = T.logs

\* The request ends: with an error (nothing committed) or after its commit.
End(t) == txns' = [txns EXCEPT ![t] = Idle]

Goto(t, pc) == txns' = [txns EXCEPT ![t].pc = pc]

\* Every accepted request writes one audit row.
ConcBudget == Cardinality(AllLogs(Tables)) + Cardinality(TxnIds \ IdleTxns) < MaxConcLogs

\* The request arrives and runs its first statement, get_contract; a request
\* refused there ends with nothing written.
BeginUpdateContent(t) ==
    /\ t \in IdleTxns /\ \A i \in IdleTxns : t <= i
    /\ ConcBudget
    /\ \E u \in Users, c \in ContractIds, x \in ContentRequests :
        IF owner_check(Tables, u, c) # 0
        THEN UNCHANGED txns
        ELSE txns' = [txns EXCEPT ![t] = [Idle EXCEPT !.op = "update_content", !.user = u,
                                                      !.cid = c, !.arg = x,
                                                      !.pc = "get_next_version_number"]]
    /\ UNCHANGED db

UpdateContentNextVersion(t) ==
    /\ txns[t].op = "update_content" /\ txns[t].pc = "get_next_version_number"
    /\ txns' = [txns EXCEPT ![t].next_version = get_next_version_number(Tables, txns[t].cid),
                            ![t].pc = "commit"]
    /\ UNCHANGED db

\* add_version and log_activity flush their rows; commit makes them visible.
UpdateContentCommit(t) ==
    /\ txns[t].op = "update_content" /\ txns[t].pc = "commit"
    /\ LET r == txns[t]
           T1 == add_version(Tables, r.cid, r.next_version, r.arg[1], r.arg[2], r.user)
           action == IF r.arg[2] = "AI" THEN "GENERATED" ELSE "UPDATED"
           T2 == log_activity(T1, r.cid, action, r.user,
                              [version |-> r.next_version, source |-> r.arg[2]])
       IN Store(T2)
    /\ End(t)

\* The request arrives, runs get_contract and the checks on the row it read.
BeginUpdateStatus(t) ==
    /\ t \in IdleTxns /\ \A i \in IdleTxns : t <= i
    /\ ConcBudget
    /\ \E u \in Users, c \in ContractIds, x \in StatusRequests :
        LET new_status == x[1]
            reason == x[2]
        IN IF owner_check(Tables, u, c) # 0 THEN UNCHANGED txns
           ELSE LET current_status == contracts[c].status IN
             IF new_status = current_status THEN UNCHANGED txns
             ELSE IF new_status \notin Range(ALLOWED_TRANSITIONS[current_status])
                  THEN UNCHANGED txns
             ELSE IF new_status = "CANCELLED" /\ Falsy(reason) THEN UNCHANGED txns
             ELSE txns' = [txns EXCEPT ![t] =
                            [Idle EXCEPT !.op = "update_status", !.user = u, !.cid = c,
                                         !.arg = x, !.current_status = current_status,
                                         !.pc = IF new_status = "SIGNED" THEN "list_parties"
                                                ELSE "update_contract_fields"]]
    /\ UNCHANGED db

UpdateStatusListParties(t) ==
    /\ txns[t].op = "update_status" /\ txns[t].pc = "list_parties"
    /\ IF repo_list_parties(Tables, txns[t].cid) = {<<>>}
       THEN End(t)
       ELSE Goto(t, "all_parties_signed")
    /\ UNCHANGED db

UpdateStatusAllPartiesSigned(t) ==
    /\ txns[t].op = "update_status" /\ txns[t].pc = "all_parties_signed"
    /\ IF ~all_parties_signed(Tables, txns[t].cid)
       THEN End(t)
       ELSE Goto(t, "update_contract_fields")
    /\ UNCHANGED db

\* UPDATE contracts ... WHERE id = :contract_id takes the row lock, waiting for
\* the session that holds it; log_activity flushes its row.
UpdateStatusUpdateFields(t) ==
    /\ txns[t].op = "update_status" /\ txns[t].pc = "update_contract_fields"
    /\ ~RowLocked(txns[t].cid)
    /\ Goto(t, "commit")
    /\ UNCHANGED db

UpdateStatusCommit(t) ==
    /\ txns[t].op = "update_status" /\ txns[t].pc = "commit"
    /\ LET r == txns[t]
           new_status == r.arg[1]
           update_fields ==
                [status |-> new_status,
                 signed_at |-> IF new_status = "SIGNED" THEN Timestamp ELSE Null]
           T1 == update_contract_fields(Tables, r.cid, update_fields)
           T2 == log_activity(T1, r.cid, STATUS_ACTION[new_status], r.user,
                              [previousStatus |-> r.current_status, newStatus |-> new_status,
                               reason |-> r.arg[2]])
       IN Store(T2)
    /\ End(t)

\* The request arrives, runs get_contract and the checks on the row it read.
BeginDeleteContract(t) ==
    /\ t \in IdleTxns /\ \A i \in IdleTxns : t <= i
    /\ ConcBudget
    /\ \E u \in Users, c \in ContractIds :
        IF owner_check(Tables, u, c) # 0 THEN UNCHANGED txns
        ELSE IF contracts[c].status = "SIGNED" THEN UNCHANGED txns
        ELSE txns' = [txns EXCEPT ![t] = [Idle EXCEPT !.op = "delete_contract", !.user = u,
                                                      !.cid = c,
                                                      !.pc = "soft_delete_contract"]]
    /\ UNCHANGED db

\* UPDATE contracts SET deleted_at ... WHERE id = :contract_id takes the row
\* lock, waiting for the session that holds it; log_activity flushes its row.
DeleteContractSoftDelete(t) ==
    /\ txns[t].op = "delete_contract" /\ txns[t].pc = "soft_delete_contract"
    /\ ~RowLocked(txns[t].cid)
    /\ Goto(t, "commit")
    /\ UNCHANGED db

DeleteContractCommit(t) ==
    /\ txns[t].op = "delete_contract" /\ txns[t].pc = "commit"
    /\ LET r == txns[t]
           T1 == soft_delete_contract(Tables, r.cid)
           T2 == log_activity(T1, r.cid, "UPDATED", r.user, [softDelete |-> TRUE])
       IN Store(T2)
    /\ End(t)

\* The requests served between the concurrent ones, each in one step.
CreateContractConc == Cardinality(DOMAIN contracts) < MaxConcContracts /\ CreateContract

AddPartyConc ==
    /\ ConcBudget
    /\ \E u \in Users, c \in ContractIds, n \in Names, e \in Emails :
        Serve(add_party(u, c, "HOST", n, e, {}))

InitConc ==
    /\ contracts = <<>>
    /\ versions = <<>>
    /\ parties = <<>>
    /\ party_seq = <<>>
    /\ logs = <<>>
    /\ txns = [t \in TxnIds |-> Idle]

NextConc ==
    \/ CreateContractConc
    \/ AddPartyConc
    \/ SignatureService
    \/ \E t \in TxnIds : BeginUpdateContent(t)
    \/ \E t \in TxnIds : UpdateContentNextVersion(t)
    \/ \E t \in TxnIds : UpdateContentCommit(t)
    \/ \E t \in TxnIds : BeginUpdateStatus(t)
    \/ \E t \in TxnIds : UpdateStatusListParties(t)
    \/ \E t \in TxnIds : UpdateStatusAllPartiesSigned(t)
    \/ \E t \in TxnIds : UpdateStatusUpdateFields(t)
    \/ \E t \in TxnIds : UpdateStatusCommit(t)
    \/ \E t \in TxnIds : BeginDeleteContract(t)
    \/ \E t \in TxnIds : DeleteContractSoftDelete(t)
    \/ \E t \in TxnIds : DeleteContractCommit(t)

SpecConc == InitConc /\ [][NextConc]_vars

\* ------------------------------------------------------------------ fair scheduling
\* A request that was accepted is a coroutine of the event loop and a session
\* of the database: each keeps being scheduled, so the statement a request is
\* at runs if it stays able to run. Arrivals are under no obligation.
TxnStep(t) ==
    \/ UpdateContentNextVersion(t)
    \/ UpdateContentCommit(t)
    \/ UpdateStatusListParties(t)
    \/ UpdateStatusAllPartiesSigned(t)
    \/ UpdateStatusUpdateFields(t)
    \/ UpdateStatusCommit(t)
    \/ DeleteContractSoftDelete(t)
    \/ DeleteContractCommit(t)

\* Arrivals stop once the audit log of the run holds MaxFairLogs rows.
FairBudget == Cardinality(AllLogs(Tables)) + Cardinality(TxnIds \ IdleTxns) < MaxFairLogs

NextFair ==
    \/ FairBudget /\ CreateContractConc
    \/ FairBudget /\ AddPartyConc
    \/ SignatureService
    \/ \E t \in TxnIds : FairBudget /\ BeginUpdateContent(t)
    \/ \E t \in TxnIds : FairBudget /\ BeginUpdateStatus(t)
    \/ \E t \in TxnIds : FairBudget /\ BeginDeleteContract(t)
    \/ \E t \in TxnIds : TxnStep(t)

SpecFair == InitConc /\ [][NextFair]_vars /\ \A t \in TxnIds : WF_vars(TxnStep(t))

\* ------------------------------------------------------------------ properties
Terminal == {"SIGNED", "CANCELLED", "EXPIRED"}

Live(c) == c \in DOMAIN contracts /\ contracts[c].deleted_at = Null

Owner(c) == contracts[c].owner_user_id

LastLog(T, c) == T.logs[c][Len(T.logs[c])]

AllSigned(c) == \A p \in parties[c] : p.signature_status = "SIGNED"

RolesOf(c) == {p.role : p \in parties[c]}

\* C1: for every status S of a live contract and every target X that is not in
\* ALLOWED_TRANSITIONS[S] (X = S included), update_status by the owner fails
\* with 400 and leaves every table (status, signed_at, audit log) as it was.
C1_InvalidTransitionRejected ==
    \A c \in DOMAIN contracts, X \in ContractStatus, r \in Reasons :
        (Live(c) /\ X \notin Range(ALLOWED_TRANSITIONS[contracts[c].status]))
            => /\ update_status(Owner(c), c, X, r).code = 400
               /\ update_status(Owner(c), c, X, r).tables = Tables

\* A SIGNED contract, on which every one of the six targets is refused with 400.
C1_Witness ==
    \E c \in DOMAIN contracts :
        /\ Live(c)
        /\ contracts[c].status = "SIGNED"
        /\ \A X \in ContractStatus : update_status(Owner(c), c, X, "late").code = 400

\* C2: once a contract's status is SIGNED, CANCELLED or EXPIRED no step changes
\* it, and get_transitions by the owner returns no allowed transition for it.
C2_TerminalIsFinal ==
    /\ [][\A c \in DOMAIN contracts :
            contracts[c].status \in Terminal
                => /\ c \in DOMAIN contracts'
                   /\ contracts'[c].status = contracts[c].status]_vars
    /\ [](\A c \in DOMAIN contracts :
            (Live(c) /\ contracts[c].status \in Terminal)
                => /\ get_transitions(Owner(c), c).code = OK
                   /\ get_transitions(Owner(c), c).ret.allowedTransitions = <<>>
                   /\ \A X \in ContractStatus, r \in Reasons :
                        update_status(Owner(c), c, X, r).tables.contracts[c].status
                            = contracts[c].status)

\* A cancelled contract that was edited after its cancellation.
C2_Witness ==
    \E c \in DOMAIN contracts :
        /\ contracts[c].status = "CANCELLED"
        /\ \E i \in DOMAIN logs[c] :
            /\ logs[c][i].action = "CANCELLED"
            /\ i < Len(logs[c])

\* C3 as claimed: update_status(c, SIGNED) by the owner succeeds iff c has a
\* party and all its parties are SIGNED, and fails with 409 in every other case.
C3_SignedIffAllSigned_Original ==
    \A c \in DOMAIN contracts, r \in Reasons :
        Live(c) =>
            /\ update_status(Owner(c), c, "SIGNED", r).code = OK
                <=> (parties[c] # {} /\ AllSigned(c))
            /\ update_status(Owner(c), c, "SIGNED", r).code # OK
                => update_status(Owner(c), c, "SIGNED", r).code = 409

\* C3 (amended): on a live contract whose status is SIGNING, update_status to
\* SIGNED by the owner succeeds iff the contract has a party and all its parties
\* are SIGNED, and fails with 409 otherwise; on success it sets status SIGNED and
\* signed_at and appends one audit entry with action SIGNED. In every other
\* status the call fails with 400 whatever the parties: so it does after
\* create; add_party(HOST); add_party(GUEST), the contract being a DRAFT.
C3_SignedIffAllSigned ==
    \A c \in DOMAIN contracts, r \in Reasons :
        Live(c) =>
            IF contracts[c].status = "SIGNING"
            THEN /\ update_status(Owner(c), c, "SIGNED", r).code = OK
                    <=> (parties[c] # {} /\ AllSigned(c))
                 /\ update_status(Owner(c), c, "SIGNED", r).code # OK
                    => update_status(Owner(c), c, "SIGNED", r).code = 409
                 /\ update_status(Owner(c), c, "SIGNED", r).code = OK
                    => /\ update_status(Owner(c), c, "SIGNED", r).tables.contracts[c].status = "SIGNED"
                       /\ update_status(Owner(c), c, "SIGNED", r).tables.contracts[c].signed_at # Null
                       /\ update_status(Owner(c), c, "SIGNED", r).tables.logs[c]
                            = Append(logs[c], ActivityLog("SIGNED", Owner(c),
                                [previousStatus |-> "SIGNING", newStatus |-> "SIGNED", reason |-> r]))
            ELSE update_status(Owner(c), c, "SIGNED", r).code = 400

\* A contract with a HOST and a GUEST, both SIGNED, that went through SIGNING
\* and was then moved to SIGNED.
C3_Witness ==
    \E c \in DOMAIN contracts :
        /\ contracts[c].status = "SIGNED"
        /\ contracts[c].signed_at # Null
        /\ RolesOf(c) = {"HOST", "GUEST"}
        /\ Cardinality(parties[c]) = 2
        /\ AllSigned(c)
        /\ LastLog(Tables, c).action = "SIGNED"

\* C4: the version numbers of a contract, in the order they were written, are
\* 1, 2, ..., n, and the next update_content by the owner writes n + 1.
C4_VersionsSequential ==
    \A c \in DOMAIN contracts :
        /\ \A i \in DOMAIN versions[c] : versions[c][i].version = i
        /\ \A x \in Contents, s \in Sources :
            Live(c) =>
                update_content(Owner(c), c, x, s).tables.versions[c]
                    = Append(versions[c], ContractVersion(Len(versions[c]) + 1, x, s, Owner(c)))

\* A contract with two versions written by two update_content calls.
C4_Witness ==
    \E c \in DOMAIN contracts :
        /\ Len(versions[c]) = 2
        /\ versions[c][1].version = 1
        /\ versions[c][2].version = 2
        /\ Len(logs[c]) = 3

NotFound(out) == out.code = 404 /\ out.tables = Tables

Forbidden(out) == out.code = 403 /\ out.tables = Tables

FailsClean(out) == out.code # OK => out.tables = Tables

P(kind, out) ==
    CASE kind = "NotFound" -> NotFound(out)
      [] kind = "Forbidden" -> Forbidden(out)
      [] kind = "FailsClean" -> FailsClean(out)

\* Every owner-scoped handler, on every input of the model, has an outcome of the kind.
AllOwnerScoped(u, c, kind) ==
    /\ \A lv \in LatestChoices(c), pl \in PartyListChoices(c) :
        /\ P(kind, get_contract_detail(u, c, lv, pl))
        /\ P(kind, duplicate_contract(u, c, lv, pl))
    /\ \A t \in Titles \cup {Null} : P(kind, update_contract(u, c, t))
    /\ P(kind, delete_contract(u, c))
    /\ \A x \in Contents, s \in Sources : P(kind, update_content(u, c, x, s))
    /\ \A vl \in VersionListChoices(c) : P(kind, list_versions(u, c, vl))
    /\ \A X \in ContractStatus, r \in Reasons : P(kind, update_status(u, c, X, r))
    /\ P(kind, get_transitions(u, c))
    /\ P(kind, list_activity(u, c))
    /\ \A pl \in PartyListChoices(c) : P(kind, list_parties(u, c, pl))
    /\ \A r \in PartyRole, n \in Names, e \in Emails, o \in Orders \cup {{2}} :
        P(kind, add_party(u, c, r, n, e, o))
    /\ \A q \in PartyIds : P(kind, remove_party(u, c, q))

\* C7: every owner-scoped handler fails with 404 on an id that is absent or
\* soft-deleted, whoever calls, and with 403 on a live contract of another
\* owner; in both cases no table changes.
C7_OwnershipEnforced ==
    \A u \in Users, c \in ContractIds :
        /\ ~Live(c) => AllOwnerScoped(u, c, "NotFound")
        /\ (Live(c) /\ Owner(c) # u) => AllOwnerScoped(u, c, "Forbidden")

\* A soft-deleted contract with versions or parties, refused to its owner, next
\* to a live contract refused to a caller who does not own it.
C7_Witness ==
    /\ \E c \in DOMAIN contracts :
        /\ contracts[c].deleted_at # Null
        /\ Len(logs[c]) >= 3
        /\ update_content(Owner(c), c, "a", "AI").code = 404
    /\ \E c \in DOMAIN contracts, u \in Users :
        /\ Live(c)
        /\ u # Owner(c)
        /\ delete_contract(u, c).code = 403

\* C8: a handler that ends in an error leaves every table as it was.
C8_ErrorsLeaveNoTrace ==
    /\ \A u \in Users, c \in ContractIds : AllOwnerScoped(u, c, "FailsClean")
    /\ \A u \in Users, t \in Titles : FailsClean(create_contract(u, t, "lease", "tpl"))
    /\ \A u \in Users, ids \in IdListRequests, f \in LatestChoiceFns :
        FailsClean(bulk_download(u, ids, f))
    /\ \A c \in ContractIds, k \in Tokens :
        \A lv \in LatestChoices(c), pl \in PartyListChoices(c) :
            FailsClean(public_view(c, k, lv, pl))

\* A contract with a party on which remove_party of another party id fails with
\* 404, next to a SIGNED contract on which delete_contract fails with 409.
C8_Witness ==
    /\ \E c \in DOMAIN contracts :
        /\ Live(c)
        /\ contracts[c].status # "SIGNED"
        /\ parties[c] # {}
        /\ \E q \in PartyIds : remove_party(Owner(c), c, q).code = 404
    /\ \E c \in DOMAIN contracts :
        /\ Live(c)
        /\ contracts[c].status = "SIGNED"
        /\ delete_contract(Owner(c), c).code = 409

\* The outcome appended exactly one audit entry to contract c and none elsewhere.
AuditedOnce(out, c) ==
    /\ DOMAIN out.tables.logs = DOMAIN logs
    /\ Len(out.tables.logs[c]) = Len(logs[c]) + 1
    /\ SubSeq(out.tables.logs[c], 1, Len(logs[c])) = logs[c]
    /\ \A d \in DOMAIN logs \ {c} : out.tables.logs[d] = logs[d]

\* The outcome created a contract holding exactly one audit entry.
AuditedNew(out) ==
    /\ DOMAIN out.tables.logs = DOMAIN logs \cup {NewId(Tables)}
    /\ NewId(Tables) \notin DOMAIN logs
    /\ Len(out.tables.logs[NewId(Tables)]) = 1
    /\ \A d \in DOMAIN logs : out.tables.logs[d] = logs[d]

Unaudited(out) == out.tables.logs = logs

C10_CancelNeedsReason ==
    \A c \in DOMAIN contracts :
        Live(c) =>
            /\ \A r \in {Null, ""} :
                /\ update_status(Owner(c), c, "CANCELLED", r).code = 400
                /\ update_status(Owner(c), c, "CANCELLED", r).tables = Tables
            /\ contracts[c].status \in {"DRAFT", "GENERATED", "SIGNING"}
                => /\ update_status(Owner(c), c, "CANCELLED", "late").code = OK
                   /\ update_status(Owner(c), c, "CANCELLED", "late").tables.contracts[c].status
                        = "CANCELLED"
                   /\ update_status(Owner(c), c, "CANCELLED", "late").tables.logs[c]
                        = Append(logs[c], ActivityLog("CANCELLED", Owner(c),
                            [previousStatus |-> contracts[c].status, newStatus |-> "CANCELLED",
                             reason |-> "late"]))

\* A contract cancelled from SIGNING with the reason recorded.
C10_Witness ==
    \E c \in DOMAIN contracts :
        /\ contracts[c].status = "CANCELLED"
        /\ LastLog(Tables, c).action = "CANCELLED"
        /\ LastLog(Tables, c).details.reason = "late"
        /\ LastLog(Tables, c).details.previousStatus = "SIGNING"

\* C5: no two committed versions of a contract share a version number, however
\* concurrent update_content requests on it interleave.
C5_NoDuplicateVersionNumbers ==
    \A c \in DOMAIN contracts :
        \A i, j \in DOMAIN versions[c] :
            i # j => versions[c][i].version # versions[c][j].version

\* C6: the committed status of a contract only moves along allowed edges, so a
\* terminal status is never overwritten, however concurrent update_status
\* requests on it interleave.
C6_CommittedStatusFollowsEdges ==
    [][\A c \in DOMAIN contracts :
        contracts'[c].status # contracts[c].status
            => contracts'[c].status \in Range(ALLOWED_TRANSITIONS[contracts[c].status])]_vars

\* The audit action the specification gives for a move to status T.
ActionFor(T) ==
    CASE T = "GENERATED" -> "GENERATED"
      [] T = "SIGNING" -> "SENT"
      [] T = "SIGNED" -> "SIGNED"
      [] T = "CANCELLED" -> "CANCELLED"
      [] T = "EXPIRED" -> "UPDATED"
      [] OTHER -> "UPDATED"

\* C11: a successful update_status to T sets the status to T, sets signed_at to
\* a time when T is SIGNED and to null otherwise, changes nothing else in the
\* tables, and appends one audit entry whose action is the one mapped to T and
\* whose details hold the previous status, the new status and the reason.
C11_TransitionEffect ==
    \A u \in Users, c \in ContractIds, T \in ContractStatus, r \in Reasons :
        update_status(u, c, T, r).code = OK =>
            /\ Live(c) /\ u = Owner(c)
            /\ update_status(u, c, T, r).tables.contracts[c]
                = [contracts[c] EXCEPT !.status = T,
                                       !.signed_at = IF T = "SIGNED" THEN Timestamp ELSE Null]
            /\ (T = "SIGNED") <=> (update_status(u, c, T, r).tables.contracts[c].signed_at # Null)
            /\ update_status(u, c, T, r).tables.logs[c]
                = Append(logs[c], [action |-> ActionFor(T), user_id |-> u,
                                   user_name |-> user_name(u),
                                   details |-> [previousStatus |-> contracts[c].status,
                                                newStatus |-> T, reason |-> r]])
            /\ update_status(u, c, T, r).tables
                = [Tables EXCEPT !.contracts[c] = update_status(u, c, T, r).tables.contracts[c],
                                 !.logs[c] = update_status(u, c, T, r).tables.logs[c]]

\* A contract that expired while in SIGNING: the move is logged as UPDATED and
\* signed_at stays null.
C11_Witness ==
    \E c \in DOMAIN contracts :
        /\ contracts[c].status = "EXPIRED"
        /\ contracts[c].signed_at = Null
        /\ LastLog(Tables, c).action = "UPDATED"
        /\ IsTransitionLog(LastLog(Tables, c))
        /\ LastLog(Tables, c).details.newStatus = "EXPIRED"
        /\ LastLog(Tables, c).details.previousStatus = "SIGNING"

\* The contents of the versions of c that carry the maximum version number, or
\* the empty string when c has no version.
CurrentContents(c) ==
    IF versions[c] = <<>> THEN {""}
    ELSE {versions[c][i].content :
            i \in {k \in DOMAIN versions[c] :
                    \A j \in DOMAIN versions[c] : versions[c][j].version <= versions[c][k].version}}

\* C12: for every contract, the content returned by get_contract_detail,
\* public_view and bulk_download is the content of the one version with the
\* maximum version number, or the empty string if the contract has no version.
C12_CurrentContentIsLatest ==
    \A c \in DOMAIN contracts :
        /\ Cardinality(CurrentContents(c)) = 1
        /\ \A lv \in LatestChoices(c), pl \in PartyListChoices(c) :
            /\ \A u \in Users :
                get_contract_detail(u, c, lv, pl).code = OK
                    => get_contract_detail(u, c, lv, pl).ret.content \in CurrentContents(c)
            /\ \A k \in Tokens :
                public_view(c, k, lv, pl).code = OK
                    => public_view(c, k, lv, pl).ret.content \in CurrentContents(c)
        /\ \A u \in Users, ids \in IdListRequests, f \in LatestChoiceFns :
            (bulk_download(u, ids, f).code = OK /\ c \in Range(ids))
                => \E x \in CurrentContents(c) :
                    /\ <<Filename(c), x>> \in bulk_download(u, ids, f).ret
                    /\ \A e \in bulk_download(u, ids, f).ret : e[1] = Filename(c) => e[2] = x

\* A live contract with a party and two versions of different content, whose
\* detail, public view and download all answer with the second content.
C12_Witness ==
    \E c \in DOMAIN contracts :
        /\ Live(c)
        /\ parties[c] # {}
        /\ Len(versions[c]) = 2
        /\ versions[c][1].content # versions[c][2].content
        /\ \A lv \in LatestChoices(c), pl \in PartyListChoices(c) :
            /\ get_contract_detail(Owner(c), c, lv, pl).code = OK
            /\ get_contract_detail(Owner(c), c, lv, pl).ret.content = versions[c][2].content
            /\ public_view(c, "tok1", lv, pl).code = OK
        /\ \E f \in LatestChoiceFns : bulk_download(Owner(c), <<c>>, f).code = OK

\* C13: remove_party by the owner of a live contract fails with 409 when the
\* contract is SIGNED, deleting no party and writing no audit entry; on any
\* other status it fails with 404, writing nothing, when no party of the
\* contract has the id, and otherwise deletes exactly that party.
C13_RemoveParty ==
    \A c \in DOMAIN contracts, q \in PartyIds \cup PartyIdRequests :
        Live(c) =>
            IF contracts[c].status = "SIGNED"
            THEN /\ remove_party(Owner(c), c, q).code = 409
                 /\ remove_party(Owner(c), c, q).tables = Tables
            ELSE IF \A p \in parties[c] : p.id # q
            THEN /\ remove_party(Owner(c), c, q).code = 404
                 /\ remove_party(Owner(c), c, q).tables = Tables
            ELSE /\ remove_party(Owner(c), c, q).code = OK
                 /\ remove_party(Owner(c), c, q).tables.parties
                        = [parties EXCEPT ![c] = {p \in parties[c] : p.id # q}]
                 /\ Cardinality(remove_party(Owner(c), c, q).tables.parties[c])
                        = Cardinality(parties[c]) - 1

\* A SIGNED contract with a party, whose removal is refused, next to a contract
\* on which a party can be removed and an id never issued is refused with 404.
C13_Witness ==
    /\ \E c \in DOMAIN contracts : \E p \in parties[c] :
        /\ Live(c)
        /\ contracts[c].status = "SIGNED"
        /\ remove_party(Owner(c), c, p.id).code = 409
    /\ \E c \in DOMAIN contracts : \E p \in parties[c] :
        /\ Live(c)
        /\ remove_party(Owner(c), c, p.id).code = OK
        /\ remove_party(Owner(c), c, <<c, MaxDraftWrites>>).code = 404

\* C14: add_party by the owner of a live contract fails with 409 and adds no
\* party when the contract is SIGNED; in every other status it succeeds and adds
\* one party with the given role, name and email and signature_status PENDING,
\* keeping the parties the contract had.
C14_AddParty ==
    \A c \in DOMAIN contracts, r \in PartyRole, n \in Names, e \in Emails, o \in Orders \cup {{2}} :
        Live(c) =>
            IF contracts[c].status = "SIGNED"
            THEN /\ add_party(Owner(c), c, r, n, e, o).code = 409
                 /\ add_party(Owner(c), c, r, n, e, o).tables = Tables
            ELSE /\ add_party(Owner(c), c, r, n, e, o).code = OK
                 /\ parties[c] \subseteq add_party(Owner(c), c, r, n, e, o).tables.parties[c]
                 /\ \E p \in add_party(Owner(c), c, r, n, e, o).tables.parties[c] :
                     /\ add_party(Owner(c), c, r, n, e, o).tables.parties[c] = parties[c] \cup {p}
                     /\ p \notin parties[c]
                     /\ p.signature_status = "PENDING"
                     /\ p.role = r /\ p.name = n /\ p.email = e
                 /\ \A d \in DOMAIN contracts \ {c} :
                     add_party(Owner(c), c, r, n, e, o).tables.parties[d] = parties[d]

\* A SIGNED contract, to which no party can be added any more, that was given a
\* party after it had left DRAFT.
C14_Witness ==
    \E c \in DOMAIN contracts :
        /\ Live(c)
        /\ contracts[c].status = "SIGNED"
        /\ add_party(Owner(c), c, "WITNESS", "n", "p@x", {}).code = 409
        /\ \E i, j \in DOMAIN logs[c] :
            /\ i < j
            /\ IsTransitionLog(logs[c][i])
            /\ "partyAdded" \in DOMAIN logs[c][j].details

\* The party that add_party's outcome added to contract c.
Added(out, c) == CHOOSE p \in out.tables.parties[c] : p \notin parties[c]

\* C15: add_party without an order gives the new party signing_order 1 when the
\* contract has no party and 1 plus the maximum signing_order of its parties
\* otherwise: strictly greater than every existing order, so the party is last
\* in every result of list_parties, which is ascending by signing_order. An
\* order given explicitly (0 included) is stored unchanged.
C15_SigningOrder ==
    \A c \in DOMAIN contracts, r \in PartyRole, n \in Names, e \in Emails :
        (Live(c) /\ contracts[c].status # "SIGNED") =>
            /\ add_party(Owner(c), c, r, n, e, {}).code = OK
            /\ Added(add_party(Owner(c), c, r, n, e, {}), c).signing_order
                = IF parties[c] = {} THEN 1
                  ELSE 1 + SetMax({p.signing_order : p \in parties[c]})
            /\ \A p \in parties[c] :
                p.signing_order < Added(add_party(Owner(c), c, r, n, e, {}), c).signing_order
            /\ \A seq \in repo_list_parties(add_party(Owner(c), c, r, n, e, {}).tables, c) :
                /\ seq[Len(seq)] = Added(add_party(Owner(c), c, r, n, e, {}), c)
                /\ \A i, j \in DOMAIN seq : i < j => seq[i].signing_order <= seq[j].signing_order
            /\ \A k \in 0..3 :
                Added(add_party(Owner(c), c, r, n, e, {k}), c).signing_order = k

\* A contract with two parties of explicit order 1 and a party added after them
\* without an order, which got order 2.
C15_Witness ==
    \E c \in DOMAIN contracts : \E p, q, w \in parties[c] :
        /\ p # q
        /\ p.signing_order = 1 /\ q.signing_order = 1
        /\ w.signing_order = 2
        /\ w.id[2] > p.id[2] /\ w.id[2] > q.id[2]
        /\ w.role = "HOST"

\* C16: delete_contract by the owner of a live contract fails with 409 and
\* leaves the contract undeleted when it is SIGNED; in every other status it
\* sets the soft-delete timestamp and appends one audit entry with action
\* UPDATED, and changes nothing else: status, versions and parties stay.
C16_SoftDelete ==
    \A c \in DOMAIN contracts :
        Live(c) =>
            IF contracts[c].status = "SIGNED"
            THEN /\ delete_contract(Owner(c), c).code = 409
                 /\ delete_contract(Owner(c), c).tables = Tables
            ELSE /\ delete_contract(Owner(c), c).code = OK
                 /\ delete_contract(Owner(c), c).tables.contracts[c].deleted_at # Null
                 /\ delete_contract(Owner(c), c).tables.contracts
                        = [contracts EXCEPT ![c].deleted_at = Timestamp]
                 /\ delete_contract(Owner(c), c).tables.logs
                        = [logs EXCEPT ![c] = Append(@, [action |-> "UPDATED", user_id |-> Owner(c),
                                                         user_name |-> user_name(Owner(c)),
                                                         details |-> [softDelete |-> TRUE]])]
                 /\ delete_contract(Owner(c), c).tables.versions = versions
                 /\ delete_contract(Owner(c), c).tables.parties = parties

\* A soft-deleted contract that keeps its version and its party, the deletion
\* being its last audit entry.
C16_Witness ==
    \E c \in DOMAIN contracts :
        /\ contracts[c].deleted_at # Null
        /\ versions[c] # <<>>
        /\ parties[c] # {}
        /\ "softDelete" \in DOMAIN LastLog(Tables, c).details
        /\ LastLog(Tables, c).action = "UPDATED"

LiveOwnedBy(u) == {c \in DOMAIN contracts : contracts[c].deleted_at = Null /\ contracts[c].owner_user_id = u}

\* C17: in every reachable state, for every caller and every filter, each
\* contract in the result of list_contracts, list_recent_contracts and
\* list_pending_contracts is live and owned by the caller, and every figure of
\* stats counts live contracts of the caller only: byStatus[s] is the number of
\* them with status s, total their number, pendingSignatures the number of them
\* in SIGNING with an unsigned party, signedThisMonth a number of them in SIGNED.
C17_ListsAreLiveAndOwned ==
    \A u \in Users :
        /\ \A f \in ContractFilters : \A result \in repo_list_contracts(Tables, u, f) :
            Range(list_contracts(u, f, result).ret.data) \subseteq LiveOwnedBy(u)
        /\ Range(list_recent_contracts(u).ret) \subseteq LiveOwnedBy(u)
        /\ Range(list_pending_contracts(u).ret) \subseteq LiveOwnedBy(u)
        /\ \A this_month \in ThisMonthChoices :
            LET figures == stats(u, this_month).ret
            IN /\ figures.total = Cardinality(LiveOwnedBy(u))
               /\ \A s \in DOMAIN figures.byStatus :
                    figures.byStatus[s] = Cardinality({c \in LiveOwnedBy(u) : contracts[c].status = s})
               /\ \A s \in ContractStatus \ DOMAIN figures.byStatus :
                    {c \in LiveOwnedBy(u) : contracts[c].status = s} = {}
               /\ figures.pendingSignatures =
                    Cardinality({c \in LiveOwnedBy(u) : contracts[c].status = "SIGNING" /\ ~AllSigned(c)})
               /\ figures.signedThisMonth <=
                    Cardinality({c \in LiveOwnedBy(u) : contracts[c].status = "SIGNED"})

\* A soft-deleted contract of one user beside a live contract of the other:
\* the first user's lists and figures are empty, the second's hold only theirs.
C17_Witness ==
    \E c, d \in DOMAIN contracts :
        /\ contracts[c].deleted_at # Null /\ contracts[d].deleted_at = Null
        /\ Owner(c) # Owner(d)
        /\ list_recent_contracts(Owner(c)).ret = <<>>
        /\ list_recent_contracts(Owner(d)).ret = <<d>>
        /\ stats(Owner(c), {}).ret.total = 0
        /\ stats(Owner(d), {}).ret.total = 1
        /\ \E f \in FilterRequests : \E result \in repo_list_contracts(Tables, Owner(d), f) :
            list_contracts(Owner(d), f, result).ret.data = <<d>>

\* The copy made by duplicating c is a new DRAFT contract of the caller whose
\* parties are those of party_list, in its order, each PENDING.
CopiesParties(out, c, party_list) ==
    LET n == NewId(Tables) IN
    /\ out.code = OK
    /\ n \notin DOMAIN contracts
    /\ DOMAIN out.tables.contracts = DOMAIN contracts \cup {n}
    /\ out.tables.contracts[n].status = "DRAFT"
    /\ Cardinality(out.tables.parties[n]) = Cardinality(parties[c])
    /\ \A k \in DOMAIN party_list : \E p \in out.tables.parties[n] :
        /\ p.id = <<n, k>>
        /\ p.role = party_list[k].role /\ p.name = party_list[k].name
        /\ p.email = party_list[k].email /\ p.signing_order = party_list[k].signing_order
        /\ p.signature_status = "PENDING"

OneVersionOfCurrentContent(out, c) ==
    LET V == out.tables.versions[NewId(Tables)] IN
    /\ Len(V) = 1
    /\ V[1].version = 1
    /\ V[1].content \in CurrentContents(c)

\* C18: duplicate_contract of any live contract c by its owner, whatever c's
\* status, creates a new DRAFT contract that has exactly one version, numbered
\* 1, with c's current content, and one PENDING party per party of c with the
\* same role, name, email and signing_order.
C18_DuplicateCopies ==
    \A c \in DOMAIN contracts : Live(c) =>
        \A lv \in LatestChoices(c), pl \in PartyListChoices(c) :
            LET out == duplicate_contract(Owner(c), c, lv, pl)
            IN CopiesParties(out, c, pl) /\ OneVersionOfCurrentContent(out, c)

\* The same, with the version required only when c has one: a contract
\* without versions is copied without versions.
C18_DuplicateCopies_Versioned ==
    \A c \in DOMAIN contracts : Live(c) =>
        \A lv \in LatestChoices(c), pl \in PartyListChoices(c) :
            LET out == duplicate_contract(Owner(c), c, lv, pl)
            IN /\ CopiesParties(out, c, pl)
               /\ IF versions[c] = <<>> THEN out.tables.versions[NewId(Tables)] = <<>>
                  ELSE OneVersionOfCurrentContent(out, c)

\* C19: a successful update_content appends one version (the content and
\* source given, the other versions kept) and one audit entry, GENERATED when
\* source is AI and UPDATED when it is USER, and leaves every contract row
\* (status, signed_at, soft-delete timestamp) and every party list unchanged.
C19_UpdateContentFrame ==
    \A u \in Users, c \in DOMAIN contracts, content \in Contents, source \in Sources :
        LET out == update_content(u, c, content, source) IN
        out.code = OK =>
            /\ Len(out.tables.versions[c]) = Len(versions[c]) + 1
            /\ SubSeq(out.tables.versions[c], 1, Len(versions[c])) = versions[c]
            /\ \A d \in DOMAIN versions : d # c => out.tables.versions[d] = versions[d]
            /\ out.tables.versions[c][Len(versions[c]) + 1].content = content
            /\ out.tables.versions[c][Len(versions[c]) + 1].source = source
            /\ AuditedOnce(out, c)
            /\ LastLog(out.tables, c).action = (IF source = "AI" THEN "GENERATED" ELSE "UPDATED")
            /\ out.tables.contracts = contracts
            /\ out.tables.parties = parties
            /\ out.tables.party_seq = party_seq

\* update_content has succeeded, from AI and from USER, on a contract that is
\* signed and has parties.
C19_Witness ==
    \E c \in DOMAIN contracts :
        /\ contracts[c].status = "SIGNED" /\ contracts[c].signed_at # Null /\ parties[c] # {}
        /\ update_content(Owner(c), c, "a", "AI").code = OK
        /\ update_content(Owner(c), c, "b", "USER").code = OK
        /\ \E i \in DOMAIN logs[c] :
            /\ logs[c][i].action = "GENERATED" /\ logs[c][i].details = [version |-> 1, source |-> "AI"]
        /\ Len(versions[c]) = 1

\* C20: appending to a contract a version whose number is not strictly greater
\* than every version number the contract has inserts nothing.
C20_AppendVersionRejectsStale ==
    \A c \in DOMAIN contracts, n \in 1..MaxDraftWrites, content \in Contents, source \in Sources :
        (\E i \in DOMAIN versions[c] : n <= versions[c][i].version) =>
            add_version(Tables, c, n, content, source, Owner(c)).versions = versions

\* In T every contract of the current state keeps its versions and its audit
\* entries, unchanged and in place; new ones come after them.
GrowsOnly(T) ==
    \A c \in DOMAIN contracts :
        /\ c \in DOMAIN T.versions /\ c \in DOMAIN T.logs
        /\ Len(T.versions[c]) >= Len(versions[c])
        /\ SubSeq(T.versions[c], 1, Len(versions[c])) = versions[c]
        /\ Len(T.logs[c]) >= Len(logs[c])
        /\ SubSeq(T.logs[c], 1, Len(logs[c])) = logs[c]

\* C21: versions and audit entries are append-only: every step, and every
\* outcome of every writing operation on every input, keeps each existing
\* version (number, content) and each existing audit entry (action, details) of
\* every contract, soft delete included; the two lists of a contract only grow.
C21_AppendOnly ==
    /\ [][GrowsOnly(Tables')]_vars
    /\ [](\A u \in Users, c \in ContractIds :
            /\ GrowsOnly(delete_contract(u, c).tables)
            /\ \A t \in Titles \cup {Null, ""} : GrowsOnly(update_contract(u, c, t).tables)
            /\ \A content \in Contents, source \in Sources :
                GrowsOnly(update_content(u, c, content, source).tables)
            /\ \A X \in ContractStatus, r \in Reasons : GrowsOnly(update_status(u, c, X, r).tables)
            /\ \A lv \in LatestChoices(c), pl \in PartyListChoices(c) :
                GrowsOnly(duplicate_contract(u, c, lv, pl).tables)
            /\ \A p \in PartyIds : GrowsOnly(remove_party(u, c, p).tables))

\* A soft-deleted contract that still has its two versions and the audit
\* entries of its creation, its content updates and its deletion.
C21_Witness ==
    \E c \in DOMAIN contracts :
        /\ contracts[c].deleted_at # Null
        /\ Len(versions[c]) = 2 /\ versions[c][1].version = 1 /\ versions[c][2].version = 2
        /\ Len(logs[c]) = 4
        /\ logs[c][1].action = "CREATED"

\* Requested id lists: up to three ids, repeated or not, of contracts that
\* exist or not (MaxContracts + 1 is never a contract).
IdLists == UNION {[1..n -> 1..(MaxContracts + 1)] : n \in 0..3}

\* C22: bulk_download fails with 404, returning no archive and changing nothing,
\* if some requested id is not a live contract of the caller (missing,
\* soft-deleted or another user's); otherwise, repeated ids included, the
\* archive has exactly one entry per distinct requested contract, named
\* contract_<id>.html and holding the contract's current content ("" if it has
\* no version).
C22_BulkDownload ==
    \A u \in Users, ids \in IdLists, f \in LatestChoiceFns :
        LET out == bulk_download(u, ids, f) IN
        /\ out.tables = Tables
        /\ IF \E i \in DOMAIN ids : ids[i] \notin LiveOwnedBy(u)
           THEN out.code = 404 /\ out.ret = <<>>
           ELSE /\ out.code = OK
                /\ Cardinality(out.ret) = Cardinality(Range(ids))
                /\ \A c \in Range(ids) : \E content \in CurrentContents(c) :
                    /\ <<Filename(c), content>> \in out.ret
                    /\ versions[c] = <<>> => content = ""

\* Two live contracts of one user, one with content and one without: asking
\* for both, one of them twice, gives two entries; adding an unknown id, 404.
C22_Witness ==
    \E c, d \in DOMAIN contracts : \E f \in LatestChoiceFns :
        /\ c # d /\ Live(c) /\ Live(d) /\ Owner(c) = Owner(d)
        /\ versions[c] # <<>> /\ versions[d] = <<>>
        /\ bulk_download(Owner(c), <<c, d, c>>, f).code = OK
        /\ bulk_download(Owner(c), <<c, d, c>>, f).ret =
            {<<Filename(c), versions[c][Len(versions[c])].content>>, <<Filename(d), "">>}
        /\ bulk_download(Owner(c), <<c, d, MaxContracts + 1>>, f).code = 404

\* C23: public_view takes no caller and checks no owner. It fails with 404 if
\* the contract is absent, soft-deleted or has no party; otherwise it returns
\* the contract's title and current content with a party that is first in
\* ascending signing_order among the parties that are not SIGNED, or among all
\* parties when every party is SIGNED. It changes no state.
C23_PublicView ==
    \A c \in ContractIds, k \in Tokens :
        \A lv \in LatestChoices(c), pl \in PartyListChoices(c) :
            LET out == public_view(c, k, lv, pl) IN
            /\ out.tables = Tables
            /\ IF ~Live(c) \/ parties[c] = {}
               THEN out.code = 404
               ELSE /\ out.code = OK
                    /\ out.ret.title = contracts[c].title
                    /\ out.ret.content \in CurrentContents(c)
                    /\ Cardinality(CurrentContents(c)) = 1
                    /\ out.ret.party \in parties[c]
                    /\ LET candidates == IF AllSigned(c) THEN parties[c]
                                         ELSE {p \in parties[c] : p.signature_status # "SIGNED"}
                       IN /\ out.ret.party \in candidates
                          /\ \A p \in candidates : out.ret.party.signing_order <= p.signing_order

\* A contract whose first party has signed and whose second has not: the view
\* shows the second. It shows the same to any token.
C23_Witness ==
    \E c \in DOMAIN contracts : \E p, q \in parties[c] :
        /\ Live(c)
        /\ p.signing_order < q.signing_order
        /\ p.signature_status = "SIGNED" /\ q.signature_status # "SIGNED"
        /\ \A k \in Tokens : \A lv \in LatestChoices(c), pl \in PartyListChoices(c) :
            /\ public_view(c, k, lv, pl).code = OK
            /\ public_view(c, k, lv, pl).ret.party = q

\* The caller's live contracts that pass the status filter, oldest first.
Matching(u, f) ==
    LET S == {c \in LiveOwnedBy(u) : f.status = Null \/ contracts[c].status = f.status}
    IN [i \in 1..Cardinality(S) |->
            CHOOSE c \in S : Cardinality({d \in S : d < c}) = i - 1]

C24_SameQuery ==
    \A u \in Users, f \in ContractFilters :
        f.sort_by = "createdAt" =>
            repo_list_contracts(Tables, u, f) = {list_contracts_by_created_at(Tables, u, f)}

\* byStatus[s], or 0 for a status without a row in the GROUP BY result.
CountOf(byStatus, s) == IF s \in DOMAIN byStatus THEN byStatus[s] ELSE 0

\* C25: in every reachable state and for every user, stats.total is the sum of
\* the byStatus counts and the number of the user's live contracts, and
\* stats.pendingSignatures is the number of the user's live SIGNING contracts
\* with at least one party that is not SIGNED, which is the number of contracts
\* list_pending_contracts returns; a SIGNING contract without parties is not
\* counted.
C25_Stats ==
    \A u \in Users, this_month \in ThisMonthChoices :
        LET figures == stats(u, this_month).ret
            pending == {c \in LiveOwnedBy(u) :
                            /\ contracts[c].status = "SIGNING"
                            /\ \E p \in parties[c] : p.signature_status # "SIGNED"}
        IN /\ DOMAIN figures.byStatus \subseteq ContractStatus
           /\ figures.total = CountOf(figures.byStatus, "DRAFT") + CountOf(figures.byStatus, "GENERATED")
                + CountOf(figures.byStatus, "SIGNING") + CountOf(figures.byStatus, "SIGNED")
                + CountOf(figures.byStatus, "CANCELLED") + CountOf(figures.byStatus, "EXPIRED")
           /\ figures.total = Cardinality(LiveOwnedBy(u))
           /\ figures.pendingSignatures = Cardinality(pending)
           /\ Len(list_pending_contracts(u).ret) = figures.pendingSignatures
           /\ Range(list_pending_contracts(u).ret) = pending
           /\ \A c \in LiveOwnedBy(u) : parties[c] = {} => c \notin Range(list_pending_contracts(u).ret)

\* A user with a DRAFT contract and a SIGNING contract whose party has not
\* signed: total 2, one pending signature.
C25_Witness ==
    \E c, d \in DOMAIN contracts :
        /\ Live(c) /\ Live(d) /\ Owner(c) = Owner(d)
        /\ contracts[c].status = "SIGNING" /\ contracts[d].status = "DRAFT"
        /\ \E p \in parties[c] : p.signature_status # "SIGNED"
        /\ stats(Owner(c), {}).ret.total = 2
        /\ stats(Owner(c), {}).ret.byStatus = [s \in {"SIGNING", "DRAFT"} |-> 1]
        /\ stats(Owner(c), {}).ret.pendingSignatures = 1
        /\ list_pending_contracts(Owner(c)).ret = <<c>>

\* update_contract returned without a trace: every table as before.
NoOp(out) == out.code = OK /\ out.tables = Tables

\* update_contract set the title of c, changed nothing else in the contracts,
\* versions and parties, and logged UPDATED with the field set.
TitleUpdated(out, c, t) ==
    /\ out.code = OK
    /\ out.tables.contracts = [contracts EXCEPT ![c].title = t]
    /\ out.tables.versions = versions /\ out.tables.parties = parties
    /\ AuditedOnce(out, c)
    /\ LastLog(out.tables, c).action = "UPDATED"
    /\ LastLog(out.tables, c).details = [changedFields |-> [title |-> t]]

\* C26: update_contract by the owner of a live contract is a no-op when no
\* field changes, that is when no title is given or the title given is the one
\* the contract has: title and every other field unchanged, no audit entry;
\* otherwise it updates the title and appends one UPDATED entry whose details
\* list the changed field.
C26_UpdateContractNoOp ==
    \A c \in DOMAIN contracts, t \in Titles \cup {Null, ""} :
        Live(c) =>
            IF t = Null \/ t = contracts[c].title
            THEN NoOp(update_contract(Owner(c), c, t))
            ELSE TitleUpdated(update_contract(Owner(c), c, t), c, t)

\* The same with "no field changes" read as "no title is given": a title
\* equal to the current one is written and logged like any other.
C26_UpdateContractNoOp_Given ==
    \A c \in DOMAIN contracts, t \in Titles \cup {Null, ""} :
        Live(c) =>
            IF t = Null
            THEN NoOp(update_contract(Owner(c), c, t))
            ELSE TitleUpdated(update_contract(Owner(c), c, t), c, t)

\* Everything the tables T hold about contract c.
Part(T, c) ==
    [contract |-> T.contracts[c], versions |-> T.versions[c], parties |-> T.parties[c],
     party_seq |-> T.party_seq[c], logs |-> T.logs[c]]

\* The contracts T holds beyond those of T0, without their generated ids.
Created(T0, T) ==
    {[contract |-> T.contracts[n], versions |-> T.versions[n], logs |-> T.logs[n],
      parties |-> {[p EXCEPT !.id = p.id[2]] : p \in T.parties[n]}] :
        n \in DOMAIN T.contracts \ DOMAIN T0.contracts}

\* Outcome out leaves every existing contract other than a as it is.
LeavesOthers(out, a) ==
    \A b \in DOMAIN contracts \ {a} :
        b \in DOMAIN out.tables.contracts /\ Part(out.tables, b) = Part(Tables, b)

\* A request on contract b has the same outcome after the step as before it:
\* same response, same effect on b, same contracts created.
SameEffect(before, after, b) ==
    /\ after.code = before.code
    /\ after.ret = before.ret
    /\ Part(after.tables, b) = Part(before.tables, b)
    /\ Created(Tables', after.tables) = Created(Tables, before.tables)

C28_CreateIsDraft ==
    /\ [](\A u \in Users, t \in Titles :
            LET out == create_contract(u, t, "lease", "tpl")
                n == NewId(Tables)
            IN /\ out.code = OK
               /\ n \notin DOMAIN contracts
               /\ DOMAIN out.tables.contracts = DOMAIN contracts \cup {n}
               /\ LeavesOthers(out, n)
               /\ out.tables.contracts[n] =
                    [title |-> t, contract_type |-> "lease", template_id |-> "tpl",
                     owner_user_id |-> u, metadata |-> NoDetails, status |-> "DRAFT",
                     signed_at |-> Null, deleted_at |-> Null]
               /\ out.ret = out.tables.contracts[n]
               /\ out.tables.versions[n] = <<>>
               /\ out.tables.parties[n] = {}
               /\ Len(out.tables.logs[n]) = 1
               /\ out.tables.logs[n][1].action = "CREATED"
               /\ out.tables.logs[n][1].user_id = u
               /\ out.tables.logs[n][1].details = NoDetails)
    /\ [](\A u \in Users, c \in DOMAIN contracts, r \in Reasons :
            LET out == update_status(u, c, "DRAFT", r)
            IN out.code # OK /\ out.tables = Tables)
    /\ [][\A c \in DOMAIN contracts :
            contracts[c].status # "DRAFT" => contracts'[c].status # "DRAFT"]_vars

\* A second contract has just been created beside one that left DRAFT and
\* was edited since.
C28_Witness ==
    \E c, d \in DOMAIN contracts :
        /\ contracts[c].status \notin {"DRAFT"}
        /\ Len(logs[c]) >= 3
        /\ d = Cardinality(DOMAIN contracts)
        /\ contracts[d].status = "DRAFT" /\ contracts[d].metadata = NoDetails
        /\ versions[d] = <<>> /\ parties[d] = {}
        /\ Len(logs[d]) = 1 /\ logs[d][1].action = "CREATED"

\* The first check of update_status that fails, as <<code, message>>, or
\* <<OK, "">>: the contract is found, the caller owns it, the status differs,
\* the edge is allowed, CANCELLED has a reason, SIGNED has parties, all signed.
FirstFailure(u, c, X, r) ==
    IF ~Live(c) THEN <<404, "Contrato no encontrado.">>
    ELSE IF Owner(c) # u THEN <<403, "No tienes acceso a este contrato.">>
    ELSE IF X = contracts[c].status THEN <<400, "El contrato ya tiene ese estado.">>
    ELSE IF \A i \in DOMAIN ALLOWED_TRANSITIONS[contracts[c].status] :
                ALLOWED_TRANSITIONS[contracts[c].status][i] # X
        THEN <<400, "Transicion de estado no permitida.">>
    ELSE IF X = "CANCELLED" /\ (r = Null \/ r = "")
        THEN <<400, "El estado CANCELLED requiere reason.">>
    ELSE IF X = "SIGNED" /\ parties[c] = {} THEN <<409, "No hay partes firmantes registradas.">>
    ELSE IF X = "SIGNED" /\ ~AllSigned(c) THEN <<409, "Todas las partes deben estar SIGNED.">>
    ELSE <<OK, "">>

\* C29: update_status reports the first failing check in the order NotFound,
\* Forbidden, same status, allowed edge, missing reason, party precondition,
\* and nothing else. So SIGNED requested on a contract that is not SIGNING
\* fails with 400 whatever its parties, 409 is reported only for a SIGNING
\* contract, and CANCELLED without reason on a terminal contract fails with 400.
C29_CheckOrder ==
    \A u \in Users, c \in ContractIds, X \in ContractStatus, r \in Reasons :
        LET out == update_status(u, c, X, r) IN
        /\ <<out.code, out.msg>> = FirstFailure(u, c, X, r)
        /\ (Live(c) /\ Owner(c) = u) =>
            /\ (X = "SIGNED" /\ contracts[c].status # "SIGNING") => out.code = 400
            /\ out.code = 409 => X = "SIGNED" /\ contracts[c].status = "SIGNING"
            /\ (X = "CANCELLED" /\ Falsy(r) /\ contracts[c].status \in Terminal) => out.code = 400

\* An EXPIRED contract whose only party has not signed: SIGNED is refused with
\* 400, not 409, CANCELLED without reason with the 400 of the edge check, and
\* another user gets 403 even for EXPIRED.
C29_Witness ==
    \E c \in DOMAIN contracts :
        /\ Live(c) /\ contracts[c].status = "EXPIRED"
        /\ parties[c] # {} /\ ~AllSigned(c)
        /\ update_status(Owner(c), c, "SIGNED", Null).code = 400
        /\ update_status(Owner(c), c, "CANCELLED", Null).msg = "Transicion de estado no permitida."
        /\ \E u \in Users : update_status(u, c, "EXPIRED", Null).code = 403
        /\ update_status(Owner(c), c, "EXPIRED", Null).msg = "El contrato ya tiene ese estado."

\* C30: in every reachable state, those reached by interleaving
\* update_status(SIGNED) with add_party on the same contract included, every
\* contract whose status is SIGNED has at least one party and all its parties
\* have signature_status SIGNED.
C30_SignedMeansAllSigned ==
    \A c \in DOMAIN contracts :
        contracts[c].status = "SIGNED" => parties[c] # {} /\ AllSigned(c)

\* C31: in every state reached by the service operations, soft-deleted
\* contracts included, a contract's signed_at is set if and only if its
\* status is SIGNED.
C31_SignedAtIffSigned ==
    \A c \in DOMAIN contracts :
        (contracts[c].signed_at # Null) <=> (contracts[c].status = "SIGNED")

\* A contract that update_status brought to SIGNED, carrying the time of its
\* signature, while every other contract carries none.
C31_Witness ==
    \E c \in DOMAIN contracts :
        /\ contracts[c].status = "SIGNED" /\ contracts[c].signed_at = Timestamp
        /\ LastLog(Tables, c).action = "SIGNED"
        /\ LastLog(Tables, c).details.previousStatus = "SIGNING"
        /\ \A d \in DOMAIN contracts \ {c} : contracts[d].signed_at = Null

\* The statuses a contract went through, as its audit log records them: DRAFT
\* at creation, then the newStatus of every status change in commit order.
RECURSIVE Collapse(_)
Collapse(h) ==
    IF Len(h) <= 1 THEN h
    ELSE IF h[1] = h[2] THEN Collapse(Tail(h))
    ELSE <<h[1]>> \o Collapse(Tail(h))

\* A change that rewrites the status the row already has adds no stage.
StatusHistory(c) ==
    LET moves == SelectSeq(logs[c], IsTransitionLog)
    IN Collapse(<<"DRAFT">> \o [i \in DOMAIN moves |-> moves[i].details.newStatus])

IsPrefix(h, s) == Len(h) <= Len(s) /\ \A i \in DOMAIN h : h[i] = s[i]

\* A prefix of the four stages, or a prefix of the first three ended by
\* CANCELLED or EXPIRED.
StagedHistory(h) ==
    \/ IsPrefix(h, <<"DRAFT", "GENERATED", "SIGNING", "SIGNED">>)
    \/ /\ Len(h) >= 2
       /\ h[Len(h)] \in {"CANCELLED", "EXPIRED"}
       /\ IsPrefix(SubSeq(h, 1, Len(h) - 1), <<"DRAFT", "GENERATED", "SIGNING">>)

\* The audit log holds a GENERATED entry before a SENT entry before its SIGNED entry.
AuditedStages(c) ==
    \E i, j, k \in DOMAIN logs[c] :
        /\ i < j /\ j < k
        /\ logs[c][i].action = "GENERATED"
        /\ logs[c][j].action = "SENT"
        /\ logs[c][k].action = "SIGNED"

\* C32: the status history of every contract is a prefix of DRAFT, GENERATED,
\* SIGNING, SIGNED, optionally ended by CANCELLED or EXPIRED taken from one of
\* the first three; its status is the last of that history, and the audit log
\* of a SIGNED contract holds GENERATED before SENT before its SIGNED entry.
C32_StatusHistory ==
    \A c \in DOMAIN contracts :
        /\ StagedHistory(StatusHistory(c))
        /\ contracts[c].status = StatusHistory(c)[Len(StatusHistory(c))]
        /\ contracts[c].status = "SIGNED" => AuditedStages(c)

\* The second half of C32 alone: no stage is skipped on the way to SIGNED.
C32_NoStageSkipped ==
    \A c \in DOMAIN contracts : contracts[c].status = "SIGNED" => AuditedStages(c)

Deleted(c) == c \in DOMAIN contracts /\ contracts[c].deleted_at # Null

\* The parties of a contract without what the signature service writes.
PartiesAdded(c) ==
    {[p EXCEPT !.signature_status = "PENDING", !.signed_at = Null] : p \in parties[c]}

\* C33: in every reachable state, however delete_contract and update_status
\* on one contract interleave, no contract is both soft-deleted and SIGNED.
C33_NoDeletedSigned ==
    \A c \in DOMAIN contracts : ~(Deleted(c) /\ contracts[c].status = "SIGNED")

\* No step changes the row, the versions, the parties or the audit log of a
\* soft-deleted contract.
C33_DeletedIsFrozen ==
    [][\A c \in DOMAIN contracts :
        Deleted(c) => /\ contracts'[c] = contracts[c]
                      /\ versions'[c] = versions[c]
                      /\ PartiesAdded(c)' = PartiesAdded(c)
                      /\ logs'[c] = logs[c]]_vars

\* The rest of the statement with it: every owner-scoped operation on a
\* soft-deleted contract, a second delete_contract included, fails with 404,
\* and no step changes its status, versions, parties or audit log.
C33_DeleteIsFinal ==
    /\ []C33_NoDeletedSigned
    /\ [](\A c \in DOMAIN contracts : Deleted(c) => AllOwnerScoped(Owner(c), c, "NotFound"))
    /\ C33_DeletedIsFrozen

\* The contents of the versions of c in T that carry the maximum version number.
LatestContents(T, c) ==
    {T.versions[c][i].content :
        i \in {k \in DOMAIN T.versions[c] :
                \A j \in DOMAIN T.versions[c] : T.versions[c][j].version <= T.versions[c][k].version}}

\* C34: update_content by the owner of a live contract succeeds whatever the
\* status of the contract, SIGNED, CANCELLED and EXPIRED included, and the
\* content given becomes the current content: the current content of a SIGNED
\* contract can differ from the one it had when it became SIGNED.
C34_UpdateContentAnyStatus ==
    \A c \in DOMAIN contracts, content \in Contents, source \in Sources :
        Live(c) =>
            LET out == update_content(Owner(c), c, content, source) IN
            /\ out.code = OK
            /\ out.tables.contracts[c].status = contracts[c].status
            /\ LatestContents(out.tables, c) = {content}

\* A SIGNED contract that had no content when it became SIGNED and whose one
\* version was appended afterwards.
C34_Witness ==
    \E c \in DOMAIN contracts :
        /\ Live(c) /\ contracts[c].status = "SIGNED"
        /\ \E k \in DOMAIN logs[c] :
            /\ logs[c][k].action = "SIGNED" /\ IsTransitionLog(logs[c][k])
            /\ k < Len(logs[c])
            /\ \A i \in 1..k : "version" \notin DOMAIN logs[c][i].details
            /\ LastLog(Tables, c).details = [version |-> 1, source |-> "USER"]
        /\ CurrentContents(c) = {"b"}

\* C35: the result of public_view depends on the contract id and the stored
\* state only, never on the token: for any two tokens, the same state and the
\* same rows returned by the queries, public_view has the same outcome (the
\* same error, or the same title, content and selected party).
C35_TokenIndependent ==
    \A c \in ContractIds, k1, k2 \in Tokens :
        \A lv \in LatestChoices(c), pl \in PartyListChoices(c) :
            public_view(c, k1, lv, pl) = public_view(c, k2, lv, pl)

\* A live contract with content and two parties, one signed and one not: both
\* tokens are shown the unsigned party; and an id on which both get the 404.
C35_Witness ==
    /\ \E c \in DOMAIN contracts :
        \E lv \in LatestChoices(c), pl \in PartyListChoices(c) :
            /\ Live(c) /\ Len(pl) = 2 /\ lv # {}
            /\ pl[1].signature_status = "SIGNED" /\ pl[2].signature_status # "SIGNED"
            /\ public_view(c, "tok1", lv, pl).code = OK
            /\ public_view(c, "tok1", lv, pl).ret.party = pl[2]
            /\ public_view(c, "tok2", lv, pl).ret.party = pl[2]
            /\ public_view(c, "tok2", lv, pl).ret.content \in Contents
    /\ \E c \in ContractIds :
        /\ ~Live(c)
        /\ public_view(c, "tok1", {}, <<>>).code = 404
        /\ public_view(c, "tok2", {}, <<>>).code = 404

\* From every non-terminal status of a live contract the owner's update_status
\* to CANCELLED with a reason, and to EXPIRED, succeeds and leaves the
\* contract in that terminal status, whatever its parties and versions.
CanAlwaysEnd ==
    \A c \in DOMAIN contracts :
        (Live(c) /\ contracts[c].status \notin Terminal) =>
            /\ update_status(Owner(c), c, "CANCELLED", "late").code = OK
            /\ update_status(Owner(c), c, "CANCELLED", "late").tables.contracts[c].status = "CANCELLED"
            /\ \A r \in Reasons :
                /\ update_status(Owner(c), c, "EXPIRED", r).code = OK
                /\ update_status(Owner(c), c, "EXPIRED", r).tables.contracts[c].status = "EXPIRED"

\* C36: from DRAFT, GENERATED and SIGNING the owner can always move a live
\* contract to CANCELLED (with a reason) and to EXPIRED in one step, whatever
\* its parties and versions; and under fair scheduling every accepted request
\* ends, with its commit or with an error: none waits for ever.
C36_NoRequestBlocks ==
    /\ []CanAlwaysEnd
    /\ \A t \in TxnIds : (txns[t].op # "idle") ~> (txns[t].op = "idle")

\* A status change holds the lock of the row of a live contract in a
\* non-terminal status while a second request on the same contract waits at
\* its UPDATE; the owner's move to EXPIRED would succeed in this state.
C36_Witness ==
    \E t1, t2 \in TxnIds :
        /\ txns[t1].op = "update_status" /\ txns[t1].pc = "commit"
        /\ txns[t2].op \in {"update_status", "delete_contract"}
        /\ txns[t2].pc \in {"update_contract_fields", "soft_delete_contract"}
        /\ txns[t2].cid = txns[t1].cid
        /\ ~ENABLED TxnStep(t2)
        /\ Live(txns[t1].cid)
        /\ contracts[txns[t1].cid].status \notin Terminal
        /\ parties[txns[t1].cid] # {}
        /\ update_status(Owner(txns[t1].cid), txns[t1].cid, "EXPIRED", Null).code = OK

====
